---- MODULE Spec2Model ----
(***************************************************************************)
(* Model of the demagnetization-factor calculator (afanto/demagcal):       *)
(* the time-stamped results cache (utils.js CalculationCache), the         *)
(* geometry-factor functions and their memoization cache (math-utils.js)   *)
(* and the calculator engine that composes them (calculator-engine.js).    *)
(***************************************************************************)
EXTENDS Integers, Sequences, FiniteSets, TLC

(***************************************************************************)
(* Bounds of the model.  The capacity and the expiry time are the          *)
(* program's MAX_CACHE_SIZE = 100 and CACHE_EXPIRY = 30000 ms scaled down  *)
(* so that every case (overflow, expiry) is reached by short runs; time is *)
(* counted in ticks of Date.now().                                         *)
(***************************************************************************)
MAX_CACHE_SIZE == 2
CACHE_EXPIRY == 2
MaxTime == 3
\* maxSize of addToCache, 100 in the program
MathCacheMaxSize == 2

CacheKeys == 1..(MAX_CACHE_SIZE + 1)
Results == {"r1", "r2"}
\* get() answers null for an absent or expired key (utils.js:23)
Null == "null"
NoKey == 0

VARIABLES
    now,        \* Date.now(), in ticks
    cache,      \* CalculationCache.cache: the Map, as the sequence of its entries in insertion order
    lastOp,     \* the last cache operation performed and what it returned
    lastSet,    \* history: per key, the set() still in force (no clear, eviction or overwrite since)
    entryOrder, \* history: the keys the Map holds, in the order in which they entered it
    setLog,     \* history: the keys passed to set() since construction, in call order
    readFirst,  \* history: the first key of setLog has been read by a get() that hit
    geo,        \* the last call of a geometry function: its name, arguments and outcome
    mathCache,  \* math-utils.js mathCache: the Map, as the sequence of its entries in insertion order
    easyAxisInPlane,  \* calculator.easyAxisInPlane
    showAdvanced,     \* appState.showAdvanced
    panel,      \* the geometry panel that is active
    shown,      \* what the last calculation put into the result element, and where it came from
    lastCall,   \* history: the last handler or method that ran, with its argument
    analysis,   \* the last call of analyzeAnisotropy: its arguments and the record returned
    storedAt,   \* history: for each entry of mathCache, in its order, the time it was stored
    timeout,    \* debounce: the timer the debounced function holds
    calls,      \* history: the calls of the debounced function, with their times
    invoked,    \* history: the invocations of the function debounce wraps, with their times
    swept       \* the time at which the interval timer last ran cleanupCaches

cacheVars == <<now, cache, lastOp, lastSet, entryOrder>>
fifoVars == <<setLog, readFirst>>
geomVars == <<geo, mathCache, storedAt>>
engineVars == <<easyAxisInPlane, showAdvanced, panel, shown, lastCall>>
timerVars == <<timeout, calls, invoked, swept>>
vars == <<now, cache, lastOp, lastSet, entryOrder, setLog, readFirst, geo, mathCache,
          easyAxisInPlane, showAdvanced, panel, shown, lastCall, analysis, storedAt,
          timeout, calls, invoked, swept>>

----------------------------------------------------------------------------
(***************************************************************************)
(* CalculationCache (utils.js:6-55).  An entry is {result, timestamp}      *)
(* stored under its key; a JavaScript Map iterates in insertion order, and *)
(* Map.set on a key it already holds replaces the value in place.          *)
(***************************************************************************)
Entry(k, r, t) == [key |-> k, result |-> r, timestamp |-> t]

KeysOf(c) == {c[i].key : i \in 1..Len(c)}

\* Map.get: the position of the entry stored under k, 0 when there is none
IndexOf(c, k) == IF k \in KeysOf(c) THEN CHOOSE i \in 1..Len(c) : c[i].key = k ELSE 0

\* Map.delete
MapDelete(c, k) == SelectSeq(c, LAMBDA e : e.key # k)

\* Map.set: in place when the key is held, appended otherwise
MapSet(c, e) ==
    IF e.key \in KeysOf(c)
    THEN [i \in 1..Len(c) |-> IF c[i].key = e.key THEN e ELSE c[i]]
    ELSE Append(c, e)

\* cache.keys().next().value: the first key in insertion order
\* (variant: the key inserted last)
FirstKeyLast(c) == c[Len(c)].key
FirstKey(c) == c[1].key

\* the test of get(): cached && Date.now() - cached.timestamp < this.expiryMs
\* (variant: <= in place of <)
IsLiveInclusive(c, k, t) == IndexOf(c, k) # 0 /\ t - c[IndexOf(c, k)].timestamp <= CACHE_EXPIRY
IsLive(c, k, t) == IndexOf(c, k) # 0 /\ t - c[IndexOf(c, k)].timestamp < CACHE_EXPIRY

\* get(cacheKey): the value returned and the Map afterwards
\* (variant: a hit moves the entry to the end of the Map, as an LRU cache would)
CacheGetLRU(c, k, t) ==
    IF IsLive(c, k, t)
    THEN [ret |-> c[IndexOf(c, k)].result, cache |-> Append(MapDelete(c, k), c[IndexOf(c, k)])]
    ELSE [ret |-> Null, cache |-> MapDelete(c, k)]
\* (variant: a get removes every expired entry, not only the one it looked up)
CacheGetSweeping(c, k, t) ==
    IF IsLive(c, k, t)
    THEN [ret |-> c[IndexOf(c, k)].result,
          cache |-> SelectSeq(c, LAMBDA e : t - e.timestamp < CACHE_EXPIRY)]
    ELSE [ret |-> Null,
          cache |-> SelectSeq(MapDelete(c, k), LAMBDA e : t - e.timestamp < CACHE_EXPIRY)]
CacheGet(c, k, t) ==
    IF IsLive(c, k, t)
    THEN [ret |-> c[IndexOf(c, k)].result, cache |-> c]
    ELSE [ret |-> Null, cache |-> MapDelete(c, k)]

\* set(cacheKey, result)
CacheSet(c, k, r, t) ==
    LET c1 == MapSet(c, Entry(k, r, t))
    IN  IF Len(c1) > MAX_CACHE_SIZE THEN MapDelete(c1, FirstKey(c1)) ELSE c1

\* clear()
\* (variant: only the expired entries are removed)
CacheClearExpiredOnly(c, t) == SelectSeq(c, LAMBDA e : t - e.timestamp < CACHE_EXPIRY)
CacheClear(c, t) == << >>

\* (variant: an entry is deleted once older than twice expiryMs)
CacheCleanupTwiceExpiry(c, t) == SelectSeq(c, LAMBDA e : ~(t - e.timestamp > 2 * CACHE_EXPIRY))

\* cleanup(): deletes the entries with now - timestamp > expiryMs
CacheCleanup(c, t) == SelectSeq(c, LAMBDA e : ~(t - e.timestamp > CACHE_EXPIRY))

----------------------------------------------------------------------------
(***************************************************************************)
(* Numbers.  A dimension is a decimal m * 10^e with one digit m (m <= 0    *)
(* for a non-positive input); two positive dimensions compare by exponent, *)
(* then digit, which is the exact order of the values.  A demagnetization  *)
(* factor is a fixed-point number in units of 10^-9.                       *)
(***************************************************************************)
Dec(m, e) == [m |-> m, e |-> e]

DimValues ==
    { Dec(-1, 0), Dec(0, 0), Dec(1, -3), Dec(1, -2), Dec(1, 0),
      Dec(1, 5), Dec(2, 5), Dec(1, 6), Dec(1, 7), Dec(2, 7) }

\* x <= 0
NonPositive(x) == x.m <= 0
\* x < y, for positive x and y
Less(x, y) == x.e < y.e \/ (x.e = y.e /\ x.m < y.m)
\* x * 10^n
Times10(x, n) == Dec(x.m, x.e + n)
\* Math.max and Math.min
MathMax(S) == CHOOSE x \in S : \A y \in S : ~Less(x, y)
MathMin(S) == CHOOSE x \in S : \A y \in S : ~Less(y, x)

One == 10^9
Half == One \div 2
Third == One \div 3

\* const MIN_DIMENSION = 0.01, MAX_DIMENSION = 1000000, MAX_ASPECT_RATIO = 10000000
MIN_DIMENSION == Dec(1, -2)
MAX_DIMENSION == Dec(1, 6)
MAX_ASPECT_RATIO_EXP == 7

\* the errors thrown, named by their messages
NoError == "none"
MustBePositive == "must be positive"
MustBeAtLeast == "Dimensions must be at least 0.01 nm"
MustBeLessThan == "Dimensions must be less than 1000000 nm"
AspectTooExtreme == "Aspect ratio too extreme"
CalculationFailed == "calculation failed"

Ok(v) == [err |-> NoError, val |-> v]
Throw(e) == [err |-> e, val |-> 0]

(***************************************************************************)
(* The closed forms (Aharoni's prism formula, math-utils.js:216-268, and   *)
(* the elliptic-integral cylinder formula, math-utils.js:325-343) as       *)
(* evaluated in IEEE-754 double arithmetic on the in-range dimensions of   *)
(* DimValues, rounded to 10^-9: PrismClosedForm[i][j][k] is pi_N / PI for  *)
(* (a, b, c) = (InRange[i], InRange[j], InRange[k]), CylinderClosedForm    *)
(* [i][j] the result for (thickness, diameter) = (InRange[i], InRange[j]). *)
(* -2 marks arguments that never get to the closed form.  The prism        *)
(* entry for (1, 1, 1e6) is the value -0.000077712 the formula yields      *)
(* there; the cylinder formula yields 3.183132733 for (1e6, 1), which is   *)
(* entered as 2 (any value above 1 is rejected alike).                     *)
(***************************************************************************)
InRange == << Dec(1, -2), Dec(1, 0), Dec(1, 5), Dec(2, 5), Dec(1, 6) >>
Idx(x) == CHOOSE i \in 1..Len(InRange) : InRange[i] = x

PrismClosedForm ==
  <<
    << <<333333333, 4716095, -2, -2, -2>>,
       <<497641953, 16980209, -2, -2, -2>>,
       <<-2, -2, -2, -2, -2>>,
       <<-2, -2, -2, -2, -2>>,
       <<-2, -2, -2, -2, -2>> >>,
    << <<497641953, 16980209, -2, -2, -2>>,
       <<966039582, 333333333, 5161, 1214, -77712>>,
       <<-2, 499998382, 38958, 19832, 4028>>,
       <<-2, 500000204, 40023, 20582, 4233>>,
       <<-2, 500001418, 41111, 21511, 4629>> >>,
    << <<-2, -2, -2, -2, -2>>,
       <<-2, 499998382, 38958, 19832, 4028>>,
       <<-2, 999922085, 333333333, 198316153, 45731192>>,
       <<-2, 999940145, 400841924, 252038981, 61850183>>,
       <<-2, 999954861, 477134404, 326623079, 97461183>> >>,
    << <<-2, -2, -2, -2, -2>>,
       <<-2, 500000204, 40023, 20582, 4233>>,
       <<-2, 999940145, 400841924, 252038981, 61850183>>,
       <<-2, 999958836, 495922038, 333333333, 88315740>>,
       <<-2, 999974255, 611526738, 455842130, 152902979>> >>,
    << <<-2, -2, -2, -2, -2>>,
       <<-2, 500001418, 41111, 21511, 4629>>,
       <<-2, 999954861, 477134404, 326623079, 97461183>>,
       <<-2, 999974255, 611526738, 455842130, 152902979>>,
       <<-2, 999990743, 805077634, 694194042, 333333333>> >>
  >>

CylinderClosedForm ==
  <<
    <<232210783, 963810372, -2, -2, -2>>,
    <<50176, 232210783, 999919835, 999957711, 999990518>>,
    <<-2, 31830673, 232210783, 422088231, 784519208>>,
    <<-2, 127323647, 93506082, 232210783, 656468726>>,
    <<-2, 2000000000, 4926598, 18891141, 232210783>>
  >>

\* if (!isFinite(result) || result < 0 || result > 1) throw ...
Physical(r) == IF r < 0 \/ r > One THEN Throw(CalculationFailed) ELSE Ok(r)

(***************************************************************************)
(* N_prism (math-utils.js:166-280)                                         *)
(***************************************************************************)
\* (variant: aspect_ratio >= MAX_ASPECT_RATIO)
PrismValidationAspectInclusive(a, b, c) ==
    IF NonPositive(a) \/ NonPositive(b) \/ NonPositive(c) THEN MustBePositive
    ELSE IF Less(a, MIN_DIMENSION) \/ Less(b, MIN_DIMENSION) \/ Less(c, MIN_DIMENSION) THEN MustBeAtLeast
    ELSE IF Less(MAX_DIMENSION, a) \/ Less(MAX_DIMENSION, b) \/ Less(MAX_DIMENSION, c) THEN MustBeLessThan
    ELSE IF ~Less(MathMax({a, b, c}), Times10(MathMin({a, b, c}), MAX_ASPECT_RATIO_EXP)) THEN AspectTooExtreme
    ELSE NoError

\* (variant: the aspect-ratio check before the range checks)
PrismValidationAspectFirst(a, b, c) ==
    IF NonPositive(a) \/ NonPositive(b) \/ NonPositive(c) THEN MustBePositive
    ELSE IF Less(Times10(MathMin({a, b, c}), MAX_ASPECT_RATIO_EXP), MathMax({a, b, c})) THEN AspectTooExtreme
    ELSE IF Less(a, MIN_DIMENSION) \/ Less(b, MIN_DIMENSION) \/ Less(c, MIN_DIMENSION) THEN MustBeAtLeast
    ELSE IF Less(MAX_DIMENSION, a) \/ Less(MAX_DIMENSION, b) \/ Less(MAX_DIMENSION, c) THEN MustBeLessThan
    ELSE NoError

\* lines 167-191: the checks in the order of the code; max_dim / min_dim > MAX_ASPECT_RATIO
PrismValidation(a, b, c) ==
    IF NonPositive(a) \/ NonPositive(b) \/ NonPositive(c) THEN MustBePositive
    ELSE IF Less(a, MIN_DIMENSION) \/ Less(b, MIN_DIMENSION) \/ Less(c, MIN_DIMENSION) THEN MustBeAtLeast
    ELSE IF Less(MAX_DIMENSION, a) \/ Less(MAX_DIMENSION, b) \/ Less(MAX_DIMENSION, c) THEN MustBeLessThan
    ELSE IF Less(Times10(MathMin({a, b, c}), MAX_ASPECT_RATIO_EXP), MathMax({a, b, c})) THEN AspectTooExtreme
    ELSE NoError

\* lines 193-275, for validated arguments
PrismValue(a, b, c) ==
    IF Less(Times10(c, 6), MathMax({a, b})) THEN Ok(One)        \* c < 1e-6 * Math.max(a, b)
    ELSE IF Less(Times10(a, 6), MathMax({b, c})) THEN Ok(0)     \* a < 1e-6 * Math.max(b, c)
    ELSE IF Less(Times10(b, 6), MathMax({a, c})) THEN Ok(0)     \* b < 1e-6 * Math.max(a, c)
    ELSE IF Less(Times10(MathMin({a, b}), 6), c) THEN Ok(0)     \* c > 1e6 * Math.min(a, b)
    ELSE IF Less(Times10(MathMin({b, c}), 6), a) THEN Ok(Half)  \* a > 1e6 * Math.min(b, c)
    ELSE IF Less(Times10(MathMin({a, c}), 6), b) THEN Ok(Half)  \* b > 1e6 * Math.min(a, c)
    ELSE Physical(PrismClosedForm[Idx(a)][Idx(b)][Idx(c)])

N_prism(a, b, c) ==
    IF PrismValidation(a, b, c) # NoError
    THEN Throw(PrismValidation(a, b, c))
    ELSE PrismValue(a, b, c)

(***************************************************************************)
(* demag_factors (math-utils.js:417-422): N_z first, then N_x, and         *)
(* N_y = 1.0 - N_x - N_z                                                   *)
(***************************************************************************)
demag_factors(a, b, c) ==
    LET N_z == N_prism(a, b, c)
        N_x == N_prism(b, c, a)
    IN  IF N_z.err # NoError THEN N_z
        ELSE IF N_x.err # NoError THEN N_x
        ELSE Ok(<<N_x.val, One - N_x.val - N_z.val, N_z.val>>)

(***************************************************************************)
(* N_cylinder (math-utils.js:288-355), with p = thickness / diameter       *)
(***************************************************************************)
\* lines 289-311; aspect_ratio = Math.max(p, 1/p) > MAX_ASPECT_RATIO
CylinderValidation(t, d) ==
    IF NonPositive(t) \/ NonPositive(d) THEN MustBePositive
    ELSE IF Less(t, MIN_DIMENSION) \/ Less(d, MIN_DIMENSION) THEN MustBeAtLeast
    ELSE IF Less(MAX_DIMENSION, t) \/ Less(MAX_DIMENSION, d) THEN MustBeLessThan
    ELSE IF Less(Times10(d, MAX_ASPECT_RATIO_EXP), t) \/ Less(Times10(t, MAX_ASPECT_RATIO_EXP), d)
         THEN AspectTooExtreme
    ELSE NoError

\* 2 / PI in units of 10^-9
TwoOverPi == 636619772

\* line 316: 1.0 - (2.0 * p / Math.PI), for p < 1e-6, rounded to 10^-9
ThinDisk(t, d) ==
    One - ((TwoOverPi \div 10^(d.e - t.e - 1)) * t.m + 5 * d.m) \div (10 * d.m)

\* (variant: the thin disk gets the thin-film value 1)
CylinderValueThinIsOne(t, d) ==
    IF Less(Times10(t, 6), d) THEN Ok(One)
    ELSE IF Less(Times10(d, 6), t) THEN Ok(0)
    ELSE Physical(CylinderClosedForm[Idx(t)][Idx(d)])
CylinderValue(t, d) ==
    IF Less(Times10(t, 6), d) THEN Ok(ThinDisk(t, d))           \* p < 1e-6
    ELSE IF Less(Times10(d, 6), t) THEN Ok(0)                   \* p > 1e6
    ELSE Physical(CylinderClosedForm[Idx(t)][Idx(d)])

N_cylinder(t, d) ==
    IF CylinderValidation(t, d) # NoError
    THEN Throw(CylinderValidation(t, d))
    ELSE CylinderValue(t, d)

\* calculator-engine.js:189-191: N_x = (1 - N_z) / 2, N_y = N_x
CylinderFactors(t, d) ==
    LET N_z == N_cylinder(t, d)
    IN  IF N_z.err # NoError THEN N_z
        ELSE Ok(<<(One - N_z.val) \div 2, (One - N_z.val) \div 2, N_z.val>>)

(***************************************************************************)
(* N_sphere, N_thin_film, N_infinite_rod (math-utils.js:362-408)           *)
(***************************************************************************)
\* (variant: with the range check of the prism)
N_sphereRanged(diameter) ==
    IF NonPositive(diameter) THEN Throw(MustBePositive)
    ELSE IF Less(diameter, MIN_DIMENSION) THEN Throw(MustBeAtLeast)
    ELSE IF Less(MAX_DIMENSION, diameter) THEN Throw(MustBeLessThan)
    ELSE Ok(<<Third, Third, Third>>)
N_sphere(diameter) ==
    IF NonPositive(diameter) THEN Throw(MustBePositive) ELSE Ok(<<Third, Third, Third>>)

N_thin_film(thickness) ==
    IF NonPositive(thickness) THEN Throw(MustBePositive) ELSE Ok(<<0, 0, One>>)

N_infinite_rod(diameter) ==
    IF NonPositive(diameter) THEN Throw(MustBePositive) ELSE Ok(<<Half, Half, 0>>)

----------------------------------------------------------------------------
(***************************************************************************)
(* The math cache (math-utils.js:425-512).  A key is the string the        *)
(* template literal builds, modelled as the sequence of its pieces with    *)
(* every "-" a piece of its own; ToStr is Number-to-string conversion on   *)
(* DimValues.  An entry is the key with the value stored under it.         *)
(***************************************************************************)
ToStr(x) ==
    IF x = Dec(-1, 0) THEN <<"-", "1">>
    ELSE IF x = Dec(0, 0) THEN <<"0">>
    ELSE IF x = Dec(1, -3) THEN <<"0.001">>
    ELSE IF x = Dec(1, -2) THEN <<"0.01">>
    ELSE IF x = Dec(1, 0) THEN <<"1">>
    ELSE IF x = Dec(1, 5) THEN <<"100000">>
    ELSE IF x = Dec(2, 5) THEN <<"200000">>
    ELSE IF x = Dec(1, 6) THEN <<"1000000">>
    ELSE IF x = Dec(1, 7) THEN <<"10000000">>
    ELSE <<"20000000">>

PrismKey(a, b, c) == ToStr(a) \o <<"-">> \o ToStr(b) \o <<"-">> \o ToStr(c)
CylinderKey(t, d) == <<"cylinder", "-">> \o ToStr(t) \o <<"-">> \o ToStr(d)
SphereKey(d) == <<"sphere", "-">> \o ToStr(d)
ThinFilmKey(t) == <<"thin", "-", "film", "-">> \o ToStr(t)
InfiniteRodKey(d) == <<"infinite", "-", "rod", "-">> \o ToStr(d)

MathEntry(k, v) == [key |-> k, value |-> v]

\* addToCache(key, value): cache.set, then the first key is deleted when size > maxSize
\* (variant: no size limit)
addToCacheNoLimit(mc, k, v) == MapSet(mc, MathEntry(k, v))
addToCache(mc, k, v) ==
    LET c1 == MapSet(mc, MathEntry(k, v))
    IN  IF Len(c1) > MathCacheMaxSize THEN MapDelete(c1, FirstKey(c1)) ELSE c1

\* (variant: an entry is good for CACHE_EXPIRY only, then the function is called again
\* and its result stored anew)
MemoizedWithExpiry(mc, k, r) ==
    IF k \in KeysOf(mc) /\ now < CACHE_EXPIRY
    THEN [ret |-> Ok(mc[IndexOf(mc, k)].value), mathCache |-> mc]
    ELSE IF r.err # NoError THEN [ret |-> r, mathCache |-> mc]
    ELSE [ret |-> r, mathCache |-> addToCache(MapDelete(mc, k), k, r.val)]

\* the shape of every memoized function: the stored value on a hit; otherwise the function
\* is called, and its result stored unless it threw
Memoized(mc, k, r) ==
    IF k \in KeysOf(mc) THEN [ret |-> Ok(mc[IndexOf(mc, k)].value), mathCache |-> mc]
    ELSE IF r.err # NoError THEN [ret |-> r, mathCache |-> mc]
    ELSE [ret |-> r, mathCache |-> addToCache(mc, k, r.val)]

memoizedDemagFactors(mc, a, b, c) == Memoized(mc, PrismKey(a, b, c), demag_factors(a, b, c))
memoizedNCylinder(mc, t, d) == Memoized(mc, CylinderKey(t, d), N_cylinder(t, d))
memoizedNSphere(mc, d) == Memoized(mc, SphereKey(d), N_sphere(d))
\* (variant: the thin film stored under the key of the sphere)
memoizedNThinFilmSphereKey(mc, t) == Memoized(mc, SphereKey(t), N_thin_film(t))
memoizedNThinFilm(mc, t) == Memoized(mc, ThinFilmKey(t), N_thin_film(t))
memoizedNInfiniteRod(mc, d) == Memoized(mc, InfiniteRodKey(d), N_infinite_rod(d))

----------------------------------------------------------------------------
(***************************************************************************)
(* History variables.  lastSet[k] is the set(k, v) that is still in force: *)
(* its value and time while the TTL has not elapsed, Expired once the      *)
(* clock has reached the TTL (decided by the clock alone, whatever the     *)
(* cache did), NoSet when k was never set or its entry was cleared or      *)
(* evicted.  entryOrder lists the keys held, oldest entry first.           *)
(***************************************************************************)
NoSet == [value |-> Null, at |-> -1]
Expired == [value |-> Null, at |-> -2]

Aged(h, t) == IF h.at >= 0 /\ t - h.at >= CACHE_EXPIRY THEN Expired ELSE h

\* what an operation did: its name, its key, its return value and how many keys it removed
Op(name, k, r, c, c1) ==
    [op |-> name, key |-> k, ret |-> r, dropped |-> Cardinality(KeysOf(c) \ KeysOf(c1))]

Order(old, c1, k) ==
    SelectSeq(IF k = NoKey \/ k \in {old[i] : i \in 1..Len(old)} THEN old ELSE Append(old, k),
              LAMBDA j : j \in KeysOf(c1))

\* the storing times of the entries of the math cache mc1 that a call at time t left,
\* given those of the math cache mc it found
Stamp(old, mc, mc1, t) ==
    [i \in 1..Len(mc1) |->
        IF mc1[i].key \in KeysOf(mc) THEN old[IndexOf(mc, mc1[i].key)] ELSE t]

\* no call of analyzeAnisotropy yet
NotCalled == [called |-> FALSE]

\* let timeout; (utils.js:104): no timer set
NoTimeout == [due |-> -1, args |-> 0, call |-> 0]

Init ==
    /\ now = 0
    /\ cache = << >>
    /\ lastOp = Op("new", NoKey, Null, << >>, << >>)
    /\ lastSet = [k \in CacheKeys |-> NoSet]
    /\ entryOrder = << >>
    /\ setLog = << >>
    /\ readFirst = FALSE
    /\ geo = [fn |-> "none", args |-> << >>, err |-> NoError, val |-> << >>]
    /\ mathCache = << >>
    /\ easyAxisInPlane = FALSE
    /\ showAdvanced = FALSE
    /\ panel = "cylinder"
    /\ shown = [from |-> "nothing", html |-> Null]
    /\ lastCall = [op |-> "new", arg |-> FALSE, held |-> FALSE, was |-> FALSE]
    /\ analysis = NotCalled
    /\ storedAt = << >>
    /\ timeout = NoTimeout
    /\ calls = << >>
    /\ invoked = << >>
    /\ swept = 0

\* time passes between two calls
Tick ==
    /\ now < MaxTime
    /\ now' = now + 1
    /\ lastOp' = Op("tick", NoKey, Null, cache, cache)
    /\ lastSet' = [k \in CacheKeys |-> Aged(lastSet[k], now + 1)]
    /\ UNCHANGED <<cache, entryOrder>>

\* cache.set(k, r)
Set(k, r) ==
    LET c1 == CacheSet(cache, k, r, now)
    IN  /\ cache' = c1
        /\ lastOp' = Op("set", k, Null, cache, c1)
        /\ lastSet' = [j \in CacheKeys |->
                          IF j = k THEN Aged([value |-> r, at |-> now], now)
                          ELSE IF j \in KeysOf(cache) /\ j \notin KeysOf(c1) THEN NoSet
                          ELSE lastSet[j]]
        /\ entryOrder' = Order(entryOrder, c1, k)
        /\ UNCHANGED now

\* cache.get(k)
Get(k) ==
    LET g == CacheGet(cache, k, now)
    IN  /\ cache' = g.cache
        /\ lastOp' = Op("get", k, g.ret, cache, g.cache)
        /\ entryOrder' = Order(entryOrder, g.cache, NoKey)
        /\ UNCHANGED <<now, lastSet>>

\* cache.clear()
Clear ==
    /\ cache' = CacheClear(cache, now)
    /\ lastOp' = Op("clear", NoKey, Null, cache, CacheClear(cache, now))
    /\ lastSet' = [k \in CacheKeys |-> NoSet]
    /\ entryOrder' = Order(entryOrder, CacheClear(cache, now), NoKey)
    /\ UNCHANGED now

\* cache.cleanup()
Cleanup ==
    /\ cache' = CacheCleanup(cache, now)
    /\ lastOp' = Op("cleanup", NoKey, Null, cache, CacheCleanup(cache, now))
    /\ entryOrder' = Order(entryOrder, CacheCleanup(cache, now), NoKey)
    /\ UNCHANGED <<now, lastSet>>

CacheTick == Tick /\ UNCHANGED <<fifoVars, timerVars, analysis, geomVars, engineVars>>
CacheSetCall == \E k \in CacheKeys, r \in Results : Set(k, r) /\ UNCHANGED <<fifoVars, timerVars, analysis, geomVars, engineVars>>
CacheGetCall == \E k \in CacheKeys : Get(k) /\ UNCHANGED <<fifoVars, timerVars, analysis, geomVars, engineVars>>
CacheClearCall == Clear /\ UNCHANGED <<fifoVars, timerVars, analysis, geomVars, engineVars>>
CacheCleanupCall == Cleanup /\ UNCHANGED <<fifoVars, timerVars, analysis, geomVars, engineVars>>

CacheNext ==
    \/ CacheTick
    \/ CacheSetCall
    \/ CacheGetCall
    \/ CacheClearCall
    \/ CacheCleanupCall

SpecCache == Init /\ [][CacheNext]_vars

(***************************************************************************)
(* The insertion scenario of the eviction test: from the empty cache,      *)
(* set() is called with pairwise distinct keys, and between the            *)
(* insertions the first-inserted key may be read while it is live.         *)
(***************************************************************************)
FifoTick == Tick /\ UNCHANGED <<fifoVars, timerVars, analysis, geomVars, engineVars>>

FifoSet ==
    \E k \in CacheKeys \ {setLog[i] : i \in 1..Len(setLog)}, r \in Results :
        /\ Set(k, r)
        /\ setLog' = Append(setLog, k)
        /\ UNCHANGED <<readFirst, geomVars, timerVars, analysis, engineVars>>

FifoGetFirst ==
    /\ Len(setLog) >= 1
    /\ IsLive(cache, setLog[1], now)
    /\ Get(setLog[1])
    /\ readFirst' = TRUE
    /\ UNCHANGED <<setLog, geomVars, timerVars, analysis, engineVars>>

FifoNext == FifoTick \/ FifoSet \/ FifoGetFirst

SpecFifo == Init /\ [][FifoNext]_vars

----------------------------------------------------------------------------
(***************************************************************************)
(* Calls of the geometry functions on every combination of DimValues.      *)
(***************************************************************************)
Called(f, a, r) == [fn |-> f, args |-> a, err |-> r.err, val |-> r.val]

CallDemagFactors ==
    \E a \in DimValues, b \in DimValues, c \in DimValues :
        /\ geo' = Called("demag_factors", <<a, b, c>>, demag_factors(a, b, c))
        /\ UNCHANGED <<cacheVars, fifoVars, timerVars, analysis, mathCache, storedAt, engineVars>>

CallCylinder ==
    \E t \in DimValues, d \in DimValues :
        /\ geo' = Called("N_cylinder", <<t, d>>, CylinderFactors(t, d))
        /\ UNCHANGED <<cacheVars, fifoVars, timerVars, analysis, mathCache, storedAt, engineVars>>

CallSphere ==
    \E d \in DimValues :
        /\ geo' = Called("N_sphere", <<d>>, N_sphere(d))
        /\ UNCHANGED <<cacheVars, fifoVars, timerVars, analysis, mathCache, storedAt, engineVars>>

CallThinFilm ==
    \E d \in DimValues :
        /\ geo' = Called("N_thin_film", <<d>>, N_thin_film(d))
        /\ UNCHANGED <<cacheVars, fifoVars, timerVars, analysis, mathCache, storedAt, engineVars>>

CallInfiniteRod ==
    \E d \in DimValues :
        /\ geo' = Called("N_infinite_rod", <<d>>, N_infinite_rod(d))
        /\ UNCHANGED <<cacheVars, fifoVars, timerVars, analysis, mathCache, storedAt, engineVars>>

GeomNext == CallDemagFactors \/ CallCylinder \/ CallSphere \/ CallThinFilm \/ CallInfiniteRod

SpecGeom == Init /\ [][GeomNext]_vars

----------------------------------------------------------------------------
(***************************************************************************)
(* Calls of the memoized geometry functions.  The results cache and the    *)
(* math cache are two objects that share no state, so every sequence of    *)
(* calls on both is a sequence of calls on the one interleaved with a      *)
(* sequence of calls on the other; SpecCaches explores each cache with the *)
(* other one at rest.                                                      *)
(***************************************************************************)
MemoDims == {Dec(0, 0), Dec(1, 0), Dec(1, 5)}

\* a memoized call is recorded with the time at which it was made
CalledAt(f, a, r, t) == [fn |-> f, args |-> a, err |-> r.err, val |-> r.val, at |-> t]

CallMemoized(f, a, m) ==
    /\ geo' = CalledAt(f, a, m.ret, now)
    /\ mathCache' = m.mathCache
    /\ storedAt' = Stamp(storedAt, mathCache, m.mathCache, now)
    /\ UNCHANGED <<cacheVars, fifoVars, timerVars, analysis, engineVars>>

CallMemoizedDemagFactors ==
    \E a \in MemoDims, b \in MemoDims, c \in MemoDims :
        CallMemoized("memoizedDemagFactors", <<a, b, c>>, memoizedDemagFactors(mathCache, a, b, c))

CallMemoizedNCylinder ==
    \E t \in MemoDims, d \in MemoDims :
        CallMemoized("memoizedNCylinder", <<t, d>>, memoizedNCylinder(mathCache, t, d))

CallMemoizedNSphere ==
    \E d \in MemoDims : CallMemoized("memoizedNSphere", <<d>>, memoizedNSphere(mathCache, d))

CallMemoizedNThinFilm ==
    \E t \in MemoDims : CallMemoized("memoizedNThinFilm", <<t>>, memoizedNThinFilm(mathCache, t))

CallMemoizedNInfiniteRod ==
    \E d \in MemoDims : CallMemoized("memoizedNInfiniteRod", <<d>>, memoizedNInfiniteRod(mathCache, d))

MemoNext ==
    \/ CallMemoizedDemagFactors
    \/ CallMemoizedNCylinder
    \/ CallMemoizedNSphere
    \/ CallMemoizedNThinFilm
    \/ CallMemoizedNInfiniteRod

ResultsCacheAtRest == now = 0 /\ lastOp.op = "new"
MathCacheAtRest == geo.fn = "none"

CachesNext ==
    \/ MathCacheAtRest /\ CacheNext
    \/ ResultsCacheAtRest /\ MemoNext

SpecCaches == Init /\ [][CachesNext]_vars

\* SpecMemoTimed: time passes between two memoized calls, each geometry called
\* with the dimensions of MemoTimedDims
MemoTimedDims == {Dec(1, 0)}
MemoTick ==
    /\ now < MaxTime
    /\ now' = now + 1
    /\ UNCHANGED <<cache, lastOp, lastSet, entryOrder, fifoVars, timerVars, analysis, geomVars, engineVars>>

MemoTimedNext ==
    \/ MemoNext /\ \A i \in DOMAIN geo'.args : geo'.args[i] \in MemoTimedDims
    \/ MemoTick

SpecMemoTimed == Init /\ [][MemoTimedNext]_vars

----------------------------------------------------------------------------
(***************************************************************************)
(* The incomplete elliptic integrals (math-utils.js:80-156).  k is in      *)
(* thousandths, theta in millionths of a radian.  What is modelled is the  *)
(* case each call falls into: the value returned is the expression the     *)
(* case evaluates, not its number.                                         *)
(***************************************************************************)
InvalidParameter == "Invalid parameter"

Abs(x) == IF x < 0 THEN -x ELSE x

\* Math.PI / 2, in millionths: theta >= Math.PI / 2 is theta > HalfPi
HalfPi == 1570796

\* Math.sin(theta)^2 in millionths, on the angles of EllipticThetas inside (-pi/2, pi/2)
SinSquared(theta) ==
    IF theta \in {500000, -500000} THEN 229849
    ELSE IF theta \in {1000000, -1000000} THEN 708073
    ELSE IF theta \in {1500000, -1500000} THEN 994996
    ELSE 1000000

\* k2 * sinTheta2 in units of 1e-9, k2 taken in thousandths
K2Sin2(k, theta) == ((k * k) \div 1000) * SinSquared(theta)

Sign(x) == IF x > 0 THEN 1 ELSE IF x < 0 THEN -1 ELSE 0

Zero == [form |-> "0"]
Complete(f, k, s) == [form |-> "complete", fn |-> f, m |-> k * k, sign |-> s]
Series(f) == [form |-> "series", fn |-> f, upTo |-> "k^6"]
Quadrature(f) == [form |-> "midpoint quadrature", fn |-> f, panels |-> 20]

\* ellipticFInc(k, theta) (math-utils.js:80-124)
ellipticFInc(k, theta) ==
    IF k < 0 \/ k >= 1000 THEN Throw(InvalidParameter)
    ELSE IF theta = 0 THEN Ok(Zero)
    ELSE IF Abs(theta) > HalfPi THEN Ok(Complete("ellipticK", k, Sign(theta)))
    ELSE IF K2Sin2(k, theta) < 9 * 10^8 THEN Ok(Series("ellipticFInc"))
    ELSE Ok(Quadrature("ellipticFInc"))

\* ellipticEInc(k, theta) (math-utils.js:130-156): the series whatever k2 * sinTheta2 is
ellipticEInc(k, theta) ==
    IF k < 0 \/ k >= 1000 THEN Throw(InvalidParameter)
    ELSE IF theta = 0 THEN Ok(Zero)
    ELSE IF Abs(theta) > HalfPi THEN Ok(Complete("ellipticE", k, Sign(theta)))
    ELSE Ok(Series("ellipticEInc"))

EllipticKs == {-100, 0, 500, 950, 990, 1000, 1500}
EllipticThetas == {-2000000, -1000000, 0, 500000, 1000000, 1500000, 1570796, 1570797}

CallEllipticFInc ==
    \E k \in EllipticKs, theta \in EllipticThetas :
        /\ geo' = Called("ellipticFInc", <<k, theta>>, ellipticFInc(k, theta))
        /\ UNCHANGED <<cacheVars, fifoVars, timerVars, analysis, mathCache, storedAt, engineVars>>

CallEllipticEInc ==
    \E k \in EllipticKs, theta \in EllipticThetas :
        /\ geo' = Called("ellipticEInc", <<k, theta>>, ellipticEInc(k, theta))
        /\ UNCHANGED <<cacheVars, fifoVars, timerVars, analysis, mathCache, storedAt, engineVars>>

EllipticNext == CallEllipticFInc \/ CallEllipticEInc

SpecElliptic == Init /\ [][EllipticNext]_vars

----------------------------------------------------------------------------
(***************************************************************************)
(* The anisotropy analysis (calculator-engine.js:29-91).  Energies are in  *)
(* J/m^3, Ms in kA/m (the unit of the input field: the engine passes        *)
(* 1000 times as much, in A/m), T in K, the volume in thousandths of a     *)
(* nm^3, a factor value in units of 1e-9 as in the geometry functions.     *)
(* A JavaScript number that may come out of a division is a record: a      *)
(* finite value, Infinity or NaN.                                          *)
(***************************************************************************)
Num(v) == [kind |-> "finite", v |-> v]
Infinity == [kind |-> "Infinity", v |-> 0]
NaN == [kind |-> "NaN", v |-> 0]
NotApplicable == [kind |-> "N/A", v |-> 0]

\* x / y for x >= 0: IEEE division, the quotient truncated to the unit of the result
Divide(x, y) ==
    IF y # 0 THEN Num(x \div y)
    ELSE IF x = 0 THEN NaN ELSE Infinity

\* PHYSICS_CONSTANTS.MU0 = 4*pi*1e-7 (README.md:108), in units of 1e-10
MU0 == 12566
\* PHYSICS_CONSTANTS.KB = 1.380649e-23 (README.md:109), in units of 1e-27
KB == 13806

Factor(n, v) == [name |-> n, value |-> v]

\* [...factors].sort((a, b) => a.value - b.value)[0]: the sort is stable, so
\* of several smallest factors the first in the list comes first
EasyAxis(factors) ==
    factors[CHOOSE i \in DOMAIN factors :
                /\ \A j \in DOMAIN factors : factors[i].value <= factors[j].value
                /\ \A j \in DOMAIN factors : j < i => factors[i].value < factors[j].value]

\* (variant: the first factor of the list as given, without the sort)
HardAxisUnsorted(factors) == factors[1]

\* (variant: of several largest factors the first in the list)
HardAxisFirstOfLargest(factors) ==
    factors[CHOOSE i \in DOMAIN factors :
                /\ \A j \in DOMAIN factors : factors[j].value <= factors[i].value
                /\ \A j \in DOMAIN factors : j < i => factors[j].value < factors[i].value]

\* sortedFactors[sortedFactors.length - 1]: of several largest factors the
\* last in the list comes last
HardAxis(factors) ==
    factors[CHOOSE i \in DOMAIN factors :
                /\ \A j \in DOMAIN factors : factors[j].value <= factors[i].value
                /\ \A j \in DOMAIN factors : j > i => factors[j].value < factors[i].value]

\* 0.5 * MU0 * Ms * Ms * (N_hard - N_easy) (calculator-engine.js:39), Ms a
\* multiple of 10 kA/m, the difference of the factors taken in thousandths
ShapeAnisotropy(Ms, N_easy, N_hard) ==
    ((((((Ms * Ms) \div 100) * (MU0 \div 2)) \div 100) * ((N_hard - N_easy) \div 10^6))) \div 1000

\* (variant: the two signs exchanged in the out-of-plane branch)
EffectiveAnisotropySwapped(inPlane, easyName, Ku, K_shape) ==
    IF inPlane
    THEN IF easyName = "z" THEN Ku - K_shape ELSE Ku + K_shape
    ELSE IF easyName = "z" THEN Ku - K_shape ELSE Ku + K_shape

\* K_eff (calculator-engine.js:41-50)
EffectiveAnisotropy(inPlane, easyName, Ku, K_shape) ==
    IF inPlane
    THEN IF easyName = "z" THEN Ku - K_shape ELSE Ku + K_shape
    ELSE IF easyName = "z" THEN Ku + K_shape ELSE Ku - K_shape

\* H_c = 2 * |K_eff| / (MU0 * Ms) (calculator-engine.js:52), in kA/m
CoerciveField(K_eff, Ms) == Divide(2 * Abs(K_eff) * 100, (MU0 * Ms) \div 100)

\* delta = |K_eff| * V / (KB * T) (calculator-engine.js:55), in thousandths,
\* |K_eff| taken in kJ/m^3
ThermalStability(K_eff, V, T) ==
    Divide((Abs(K_eff) \div 1000) * V, (KB * T) \div 1000)

Isotropic == "Isotropic (K_eff ~ 0)"
CrystallineDominated == "Magnetocrystalline-dominated"
ShapeDominated == "Shape-dominated"
InPlane == "In-plane"
OutOfPlane == "Out-of-plane"
Orientation(inPlane) == IF inPlane THEN InPlane ELSE OutOfPlane

\* 0.01e6, the width of the isotropic band (calculator-engine.js:62)
IsotropicBand == 10000

\* (variant: the band closed at its ends)
ClassificationClosedBand(K_eff, inPlane, easyName) ==
    IF Abs(K_eff) <= IsotropicBand
    THEN [anisotropy_type |-> Isotropic, preferred_direction |-> "None"]
    ELSE IF K_eff > 0
    THEN [anisotropy_type |-> CrystallineDominated, preferred_direction |-> Orientation(inPlane)]
    ELSE [anisotropy_type |-> ShapeDominated,
          preferred_direction |-> IF easyName = "z" THEN OutOfPlane ELSE InPlane]

\* (variant: in the shape-dominated class the direction told from the crystalline
\* orientation, the opposite one for the easy axis 'z', the same one otherwise)
ClassificationFromCrystal(K_eff, inPlane, easyName) ==
    IF Abs(K_eff) < IsotropicBand
    THEN [anisotropy_type |-> Isotropic, preferred_direction |-> "None"]
    ELSE IF K_eff > 0
    THEN [anisotropy_type |-> CrystallineDominated, preferred_direction |-> Orientation(inPlane)]
    ELSE [anisotropy_type |-> ShapeDominated,
          preferred_direction |-> IF easyName = "z" THEN Orientation(~inPlane)
                                  ELSE Orientation(inPlane)]

\* the classification (calculator-engine.js:57-75)
Classification(K_eff, inPlane, easyName) ==
    IF Abs(K_eff) < IsotropicBand
    THEN [anisotropy_type |-> Isotropic, preferred_direction |-> "None"]
    ELSE IF K_eff > 0
    THEN [anisotropy_type |-> CrystallineDominated, preferred_direction |-> Orientation(inPlane)]
    ELSE [anisotropy_type |-> ShapeDominated,
          preferred_direction |-> IF easyName = "z" THEN OutOfPlane ELSE InPlane]

\* analyzeAnisotropy(factors, Ms, Ku, V, T), this.easyAxisInPlane being inPlane
analyzeAnisotropy(factors, Ms, Ku, V, T, inPlane) ==
    LET easy_axis == EasyAxis(factors)
        hard_axis == HardAxis(factors)
        N_easy == easy_axis.value
        N_hard == hard_axis.value
        K_shape == ShapeAnisotropy(Ms, N_easy, N_hard)
        K_eff == EffectiveAnisotropy(inPlane, easy_axis.name, Ku, K_shape)
        class == Classification(K_eff, inPlane, easy_axis.name)
    IN  [easy_axis |-> easy_axis.name,
         hard_axis |-> hard_axis.name,
         N_easy |-> N_easy,
         N_hard |-> N_hard,
         K_shape |-> K_shape,
         K_eff |-> K_eff,
         H_c |-> CoerciveField(K_eff, Ms),
         delta |-> ThermalStability(K_eff, V, T),
         anisotropy_type |-> class.anisotropy_type,
         preferred_direction |-> class.preferred_direction,
         crystallineEasyAxis |-> Orientation(inPlane)]

(***************************************************************************)
(* SpecAnalysis: analyzeAnisotropy called on its own, with two or three    *)
(* named factors in any order, on both orientations of the crystalline     *)
(* easy axis.  The function reads nothing but its arguments and the       *)
(* orientation flag, so one call from the initial state stands for any.    *)
(***************************************************************************)
FactorValues == {0, Third, Half, One}
AxisNames2 == <<"x,y", "z">>
AxisNames3 == <<"x", "y", "z">>
Permutations3 == {p \in [1..3 -> 1..3] : \A i, j \in 1..3 : i # j => p[i] # p[j]}
\* the factor lists: the axes in any order, each with any value
FactorLists ==
    {[i \in 1..2 |-> Factor(AxisNames2[IF s THEN 3 - i ELSE i], v[i])] :
        s \in BOOLEAN, v \in [1..2 -> FactorValues]}
    \cup {[i \in 1..3 |-> Factor(AxisNames3[p[i]], v[i])] :
        p \in Permutations3, v \in [1..3 -> FactorValues]}
MsValues == {0, 800}
KuValues == {-500000, -10000, 0, 9999, 10000, 500000}
Temperatures == {0, 300}
Volumes == {1000}

AnalyzeAnisotropy ==
    \E factors \in FactorLists, Ms \in MsValues, Ku \in KuValues, V \in Volumes,
       T \in Temperatures, inPlane \in BOOLEAN :
        /\ analysis = NotCalled
        /\ analysis' = [called |-> TRUE, factors |-> factors, Ms |-> Ms, Ku |-> Ku, V |-> V,
                        T |-> T, inPlane |-> inPlane,
                        ret |-> analyzeAnisotropy(factors, Ms, Ku, V, T, inPlane)]
        /\ UNCHANGED <<cacheVars, fifoVars, timerVars, geomVars, engineVars>>

AnalysisNext == AnalyzeAnisotropy

SpecAnalysis == Init /\ [][AnalysisNext]_vars
----------------------------------------------------------------------------
(***************************************************************************)
(* The calculator engine (calculator-engine.js) and the handlers that      *)
(* drive it (utils.js:190-385, 517-519).  The values of the input fields   *)
(* are whatever the user has typed when a handler runs, so every handler   *)
(* draws them afresh.  The rendered HTML is modelled by what determines    *)
(* it: geometry, dimensions, material, factors, and the two display flags. *)
(***************************************************************************)
\* getMagneticProperties(): Ms in kA/m, Ku in kJ/m^3, A in pJ/m, T in K (the defaults)
Materials == {[Ms |-> 800, Ku |-> 500, A |-> 15, T |-> 300]}

EnginePrisms == {<<Dec(1, 0), Dec(1, 0), Dec(1, 0)>>,
                 <<Dec(1, -2), Dec(1, 5), Dec(1, -2)>>,
                 <<Dec(0, 0), Dec(1, 0), Dec(1, 0)>>}
EngineCylinders == {<<Dec(1, 0), Dec(1, 0)>>, <<Dec(1, 6), Dec(1, 0)>>}
EngineSpheres == {Dec(1, 0), Dec(0, 0)}

Panels == {"prism", "cylinder", "sphere", "thin-film", "infinite-rod"}

\* getGeometryDimensions(type) and getMagneticProperties(): what a calculation on panel p reads
Inputs(p) ==
    [dims : IF p = "prism" THEN EnginePrisms
            ELSE IF p = "cylinder" THEN EngineCylinders
            ELSE IF p = "sphere" THEN {<<d>> : d \in EngineSpheres}
            ELSE {<< >>},
     mat : Materials]

\* the errors the engine throws itself
ValuesMustBePositive == "must be positive values"
InvalidFactors == "Invalid demagnetization factors calculated"
SumNotOne == "Demagnetization factors don't sum to 1"

\* generateKey(type, params): `${type}-${JSON.stringify(params)}`
generateKey(type, dims, mat) == [type |-> type, dims |-> dims, mat |-> mat]

\* renderResults(factors, analysis, type, { Ms, Ku, A, showAdvanced })
renderResults(type, dims, mat, factors, an, inPlane, adv) ==
    [type |-> type, dims |-> dims, mat |-> mat, factors |-> factors, analysis |-> an,
     crystallineEasyAxis |-> inPlane, showAdvanced |-> adv]

\* Math.PI, in thousandths
Pi == 3142
\* a dimension in thousandths of a nm
Milli(d) == d.m * 10^(d.e + 3)
\* the volumes in thousandths of a nm^3 (calculator-engine.js:119, 185, 246)
PrismVolume(a, b, c) == (((Milli(a) * Milli(b)) \div 1000) * Milli(c)) \div 1000
CylinderVolume(t, d) ==
    LET radius == Milli(d) \div 2
    IN  (((((Pi * radius) \div 1000) * radius) \div 1000) * Milli(t)) \div 1000
SphereVolume(d) ==
    LET radius == Milli(d) \div 2
    IN  (((((((4 * Pi) \div 3) * radius) \div 1000) * radius) \div 1000) * radius) \div 1000
\* V_dummy = 1e-24 m^3 (calculator-engine.js:299, 348)
V_dummy == 10^6

\* the analysis of a calculation: Ms as read in kA/m, Ku read in kJ/m^3 and passed in J/m^3
Analysis(factors, mat, V, inPlane) ==
    analyzeAnisotropy(factors, mat.Ms, mat.Ku * 1000, V, mat.T, inPlane)
XYZ(N) == <<Factor("x", N[1]), Factor("y", N[2]), Factor("z", N[3])>>

\* analysisForDisplay of calculateCylinder (calculator-engine.js:206-213)
analysisForDisplayCylinder(an, N_x, N_z) ==
    [an EXCEPT !.easy_axis = IF N_z < N_x THEN "z" ELSE "x",
               !.hard_axis = IF N_z > N_x THEN "z" ELSE "x",
               !.N_easy = IF N_x < N_z THEN N_x ELSE N_z,
               !.N_hard = IF N_x > N_z THEN N_x ELSE N_z]
\* analysisForDisplay of calculateSphere (calculator-engine.js:262-269)
analysisForDisplaySphere(an, N_x) ==
    [an EXCEPT !.easy_axis = "isotropic", !.hard_axis = "isotropic",
               !.N_easy = N_x, !.N_hard = N_x, !.K_shape = 0]
\* (variant: delta left as analyzeAnisotropy computed it)
analysisForDisplayThinFilmKeepDelta(an, N, Ms) ==
    [an EXCEPT !.easy_axis = "in-plane", !.hard_axis = "out-of-plane",
               !.N_easy = N[1], !.N_hard = N[3],
               !.K_shape = ShapeAnisotropy(Ms, 0, One)]
\* analysisForDisplay of calculateThinFilm (calculator-engine.js:309-317)
analysisForDisplayThinFilm(an, N, Ms) ==
    [an EXCEPT !.easy_axis = "in-plane", !.hard_axis = "out-of-plane",
               !.N_easy = N[1], !.N_hard = N[3],
               !.K_shape = ShapeAnisotropy(Ms, 0, One),
               !.delta = NotApplicable]
\* analysisForDisplay of calculateInfiniteRod (calculator-engine.js:358-366)
analysisForDisplayInfiniteRod(an, N, Ms) ==
    [an EXCEPT !.easy_axis = "parallel", !.hard_axis = "perpendicular",
               !.N_easy = N[3], !.N_hard = N[1],
               !.K_shape = ShapeAnisotropy(Ms, 0, Half),
               !.delta = NotApplicable]

\* the three ways a calculateX() ends: the catch block, the cache hit, the fresh result
Failed(c, mc, e) == [cache |-> c, mathCache |-> mc, shown |-> [from |-> "error", html |-> e]]
Hit(c, mc, r) == [cache |-> c, mathCache |-> mc, shown |-> [from |-> "cache", html |-> r]]
Computed(c, mc, k, r) ==
    [cache |-> CacheSet(c, k, r, now), mathCache |-> mc, shown |-> [from |-> "computed", html |-> r]]

OutOfUnit(x) == x < 0 \/ x > One

\* In the calculateX() below, if (cachedResult) is the test IsLive: get() returns the stored
\* HTML, a non-empty string, for a live entry and null otherwise.

\* (variant: N_y left out of the check of the factors)
calculatePrismUncheckedNy(c, mc, inPlane, adv, in) ==
    LET a == in.dims[1]
        b == in.dims[2]
        d == in.dims[3]
        k == generateKey("prism", in.dims, in.mat)
        g == CacheGet(c, k, now)
        m == memoizedDemagFactors(mc, a, b, d)
        N == m.ret.val
    IN  IF NonPositive(a) \/ NonPositive(b) \/ NonPositive(d) THEN Failed(c, mc, ValuesMustBePositive)
        ELSE IF IsLive(c, k, now) THEN Hit(g.cache, mc, g.ret)
        ELSE IF m.ret.err # NoError THEN Failed(g.cache, m.mathCache, m.ret.err)
        ELSE IF OutOfUnit(N[1]) \/ OutOfUnit(N[3])
             THEN Failed(g.cache, m.mathCache, InvalidFactors)
        ELSE IF 100 * (N[1] + N[2] + N[3] - One) > One \/ 100 * (One - N[1] - N[2] - N[3]) > One
             THEN Failed(g.cache, m.mathCache, SumNotOne)
        ELSE Computed(g.cache, m.mathCache, k,
                      renderResults("prism", in.dims, in.mat, N,
                                    Analysis(XYZ(N), in.mat, PrismVolume(a, b, d), inPlane),
                                    inPlane, adv))

\* calculatePrism() (calculator-engine.js:94-155)
calculatePrism(c, mc, inPlane, adv, in) ==
    LET a == in.dims[1]
        b == in.dims[2]
        d == in.dims[3]
        k == generateKey("prism", in.dims, in.mat)
        g == CacheGet(c, k, now)
        m == memoizedDemagFactors(mc, a, b, d)
        N == m.ret.val
    IN  IF NonPositive(a) \/ NonPositive(b) \/ NonPositive(d) THEN Failed(c, mc, ValuesMustBePositive)
        ELSE IF IsLive(c, k, now) THEN Hit(g.cache, mc, g.ret)
        ELSE IF m.ret.err # NoError THEN Failed(g.cache, m.mathCache, m.ret.err)
        ELSE IF OutOfUnit(N[1]) \/ OutOfUnit(N[2]) \/ OutOfUnit(N[3])
             THEN Failed(g.cache, m.mathCache, InvalidFactors)
        ELSE IF 100 * (N[1] + N[2] + N[3] - One) > One \/ 100 * (One - N[1] - N[2] - N[3]) > One
             THEN Failed(g.cache, m.mathCache, SumNotOne)
        ELSE Computed(g.cache, m.mathCache, k,
                      renderResults("prism", in.dims, in.mat, N,
                                    Analysis(XYZ(N), in.mat, PrismVolume(a, b, d), inPlane),
                                    inPlane, adv))

\* calculateCylinder() (calculator-engine.js:159-226)
calculateCylinder(c, mc, inPlane, adv, in) ==
    LET t == in.dims[1]
        d == in.dims[2]
        k == generateKey("cylinder", in.dims, in.mat)
        g == CacheGet(c, k, now)
        m == memoizedNCylinder(mc, t, d)
        N_z == m.ret.val
        N_x == (One - N_z) \div 2
    IN  IF NonPositive(t) \/ NonPositive(d) THEN Failed(c, mc, ValuesMustBePositive)
        ELSE IF IsLive(c, k, now) THEN Hit(g.cache, mc, g.ret)
        ELSE IF m.ret.err # NoError THEN Failed(g.cache, m.mathCache, m.ret.err)
        ELSE IF OutOfUnit(N_z) \/ OutOfUnit(N_x) THEN Failed(g.cache, m.mathCache, InvalidFactors)
        ELSE Computed(g.cache, m.mathCache, k,
                      renderResults("cylinder", in.dims, in.mat, <<N_x, N_x, N_z>>,
                                    analysisForDisplayCylinder(
                                        Analysis(<<Factor("x,y", N_x), Factor("z", N_z)>>,
                                                 in.mat, CylinderVolume(t, d), inPlane),
                                        N_x, N_z),
                                    inPlane, adv))

\* calculateSphere() (calculator-engine.js:229-281)
calculateSphere(c, mc, inPlane, adv, in) ==
    LET k == generateKey("sphere", in.dims, in.mat)
        g == CacheGet(c, k, now)
        m == memoizedNSphere(mc, in.dims[1])
    IN  IF IsLive(c, k, now) THEN Hit(g.cache, mc, g.ret)
        ELSE IF m.ret.err # NoError THEN Failed(g.cache, m.mathCache, m.ret.err)
        ELSE Computed(g.cache, m.mathCache, k,
                      renderResults("sphere", in.dims, in.mat, m.ret.val,
                                    analysisForDisplaySphere(
                                        Analysis(XYZ(m.ret.val), in.mat,
                                                 SphereVolume(in.dims[1]), inPlane),
                                        m.ret.val[1]),
                                    inPlane, adv))

\* calculateThinFilm() (calculator-engine.js:284-330)
calculateThinFilm(c, mc, inPlane, adv, in) ==
    LET k == generateKey("thin-film", << >>, in.mat)
        g == CacheGet(c, k, now)
        m == memoizedNThinFilm(mc, Dec(1, 0))
    IN  IF IsLive(c, k, now) THEN Hit(g.cache, mc, g.ret)
        ELSE IF m.ret.err # NoError THEN Failed(g.cache, m.mathCache, m.ret.err)
        ELSE Computed(g.cache, m.mathCache, k,
                      renderResults("thin-film", << >>, in.mat, m.ret.val,
                                    analysisForDisplayThinFilm(
                                        Analysis(XYZ(m.ret.val), in.mat, V_dummy, inPlane),
                                        m.ret.val, in.mat.Ms),
                                    inPlane, adv))

\* calculateInfiniteRod() (calculator-engine.js:333-379)
calculateInfiniteRod(c, mc, inPlane, adv, in) ==
    LET k == generateKey("infinite-rod", << >>, in.mat)
        g == CacheGet(c, k, now)
        m == memoizedNInfiniteRod(mc, Dec(1, 0))
    IN  IF IsLive(c, k, now) THEN Hit(g.cache, mc, g.ret)
        ELSE IF m.ret.err # NoError THEN Failed(g.cache, m.mathCache, m.ret.err)
        ELSE Computed(g.cache, m.mathCache, k,
                      renderResults("infinite-rod", << >>, in.mat, m.ret.val,
                                    analysisForDisplayInfiniteRod(
                                        Analysis(XYZ(m.ret.val), in.mat, V_dummy, inPlane),
                                        m.ret.val, in.mat.Ms),
                                    inPlane, adv))

\* calculate(): the active panel decides (calculator-engine.js:382-405)
calculate(p, c, mc, inPlane, adv, in) ==
    IF p = "prism" THEN calculatePrism(c, mc, inPlane, adv, in)
    ELSE IF p = "cylinder" THEN calculateCylinder(c, mc, inPlane, adv, in)
    ELSE IF p = "sphere" THEN calculateSphere(c, mc, inPlane, adv, in)
    ELSE IF p = "thin-film" THEN calculateThinFilm(c, mc, inPlane, adv, in)
    ELSE calculateInfiniteRod(c, mc, inPlane, adv, in)

\* the key under which calculate() looks its result up
KeyOf(p, in) == generateKey(p, in.dims, in.mat)

\* setEasyAxisDirection(inPlane) (calculator-engine.js:23-27)
\* (variant: the cache is kept)
setEasyAxisDirectionKeepCache(c, inPlane) == [easyAxisInPlane |-> inPlane, cache |-> c]
\* (variant: only the expired entries are removed)
setEasyAxisDirectionSweepOnly(c, inPlane) == [easyAxisInPlane |-> inPlane, cache |-> CacheCleanup(c, now)]
setEasyAxisDirection(c, inPlane) == [easyAxisInPlane |-> inPlane, cache |-> CacheClear(c, now)]

(***************************************************************************)
(* The handlers.  lastCall records which one ran and its argument; for a   *)
(* change of the easy axis also the orientation flag it found, and whether *)
(* the results cache held a live entry (of the input recalculated, for the *)
(* handler; any entry, for the method) when it began.                      *)
(***************************************************************************)
Ran(op, arg, p, in) == [op |-> op, arg |-> arg, held |-> FALSE, was |-> FALSE]
RanAxis(x, p, in) ==
    [op |-> "updateEasyAxisDirection", arg |-> x,
     held |-> IsLive(cache, KeyOf(p, in), now), was |-> easyAxisInPlane]

Apply(r) ==
    /\ cache' = r.cache
    /\ mathCache' = r.mathCache
    /\ shown' = r.shown
    /\ UNCHANGED storedAt      \* the storing times are kept for the direct memoized calls

\* immediateGeometryCalculation(), also when the debounce timer fires (utils.js:190-208)
ImmediateGeometryCalculation ==
    \E in \in Inputs(panel) :
        /\ Apply(calculate(panel, cache, mathCache, easyAxisInPlane, showAdvanced, in))
        /\ lastCall' = Ran("calculate", FALSE, panel, in)
        /\ UNCHANGED <<now, lastOp, lastSet, entryOrder, fifoVars, timerVars, analysis, geo,
                       easyAxisInPlane, showAdvanced, panel>>

\* changeGeometry(geometryType) (utils.js:285-321)
ChangeGeometry ==
    \E p \in Panels : \E in \in Inputs(p) :
        /\ panel' = p
        /\ Apply(calculate(p, cache, mathCache, easyAxisInPlane, showAdvanced, in))
        /\ lastCall' = Ran("changeGeometry", FALSE, p, in)
        /\ UNCHANGED <<now, lastOp, lastSet, entryOrder, fifoVars, timerVars, analysis, geo,
                       easyAxisInPlane, showAdvanced>>

\* calculator.setEasyAxisDirection(inPlane) (calculator-engine.js:23-27)
SetEasyAxisDirection ==
    \E x \in BOOLEAN :
        /\ easyAxisInPlane' = setEasyAxisDirection(cache, x).easyAxisInPlane
        /\ cache' = setEasyAxisDirection(cache, x).cache
        /\ lastCall' = [op |-> "setEasyAxisDirection", arg |-> x, held |-> cache # << >>,
                        was |-> easyAxisInPlane]
        /\ UNCHANGED <<now, lastOp, lastSet, entryOrder, fifoVars, timerVars, analysis, geo, mathCache, storedAt,
                       showAdvanced, panel, shown>>

\* updateEasyAxisDirection() (utils.js:327-340): the flag, then the recalculation
UpdateEasyAxisDirection ==
    \E x \in BOOLEAN, in \in Inputs(panel) :
        LET s == setEasyAxisDirection(cache, x)
        IN  /\ easyAxisInPlane' = s.easyAxisInPlane
            /\ Apply(calculate(panel, s.cache, mathCache, s.easyAxisInPlane, showAdvanced, in))
            /\ lastCall' = RanAxis(x, panel, in)
            /\ UNCHANGED <<now, lastOp, lastSet, entryOrder, fifoVars, timerVars, analysis, geo,
                           showAdvanced, panel>>

\* toggleAdvancedOptions() (utils.js:346-385)
ToggleAdvancedOptions ==
    \E x \in BOOLEAN, in \in Inputs(panel) :
        /\ showAdvanced' = x
        /\ Apply(calculate(panel, CacheClear(cache, now), mathCache, easyAxisInPlane, x, in))
        /\ lastCall' = Ran("toggleAdvancedOptions", x, panel, in)
        /\ UNCHANGED <<now, lastOp, lastSet, entryOrder, fifoVars, timerVars, analysis, geo,
                       easyAxisInPlane, panel>>

\* cleanupCaches(), run by the interval timer (utils.js:517-519, calculator-engine.js:408-410)
CleanupCaches ==
    /\ cache' = CacheCleanup(cache, now)
    /\ lastCall' = [op |-> "cleanupCaches", arg |-> FALSE, held |-> FALSE, was |-> FALSE]
    /\ UNCHANGED <<now, lastOp, lastSet, entryOrder, fifoVars, timerVars, analysis, geo, mathCache, storedAt,
                   easyAxisInPlane, showAdvanced, panel, shown>>

\* SpecEngine: the handlers run one after the other within one expiry period
EngineNext ==
    \/ ImmediateGeometryCalculation
    \/ ChangeGeometry
    \/ SetEasyAxisDirection
    \/ UpdateEasyAxisDirection
    \/ ToggleAdvancedOptions
    \/ CleanupCaches

SpecEngine == Init /\ [][EngineNext]_vars

\* SpecEngineTimed: time passes between two handlers, on the panels of TimedPanels
EngineTick ==
    /\ now < MaxTime
    /\ now' = now + 1
    /\ UNCHANGED <<cache, lastOp, lastSet, entryOrder, fifoVars, timerVars, analysis, geomVars, engineVars>>

\* the panels that are active while time passes
TimedPanels == {"cylinder", "prism", "thin-film"}

EngineTimedNext ==
    \/ EngineNext /\ panel' \in TimedPanels
    \/ EngineTick

SpecEngineTimed == Init /\ [][EngineTimedNext]_vars

----------------------------------------------------------------------------
(***************************************************************************)
(* C1: a get(k) that follows a set(k, v) with no clear(), eviction or      *)
(* overwrite of k in between returns v while less than the TTL has elapsed *)
(* since the set, and returns null once the TTL has been reached.          *)
(***************************************************************************)
C1_RoundTripTTL ==
    (lastOp.op = "get" /\ lastSet[lastOp.key] # NoSet) =>
        IF lastSet[lastOp.key] = Expired
        THEN lastOp.ret = Null
        ELSE lastOp.ret = lastSet[lastOp.key].value

\* a get that hit at the last tick before the TTL, with another key's set already expired
C1_Witness ==
    /\ lastOp.op = "get"
    /\ lastSet[lastOp.key].at >= 0
    /\ now - lastSet[lastOp.key].at = CACHE_EXPIRY - 1
    /\ lastOp.ret = lastSet[lastOp.key].value
    /\ \E j \in CacheKeys : lastSet[j] = Expired

(***************************************************************************)
(* C2: after MAX_CACHE_SIZE + 1 pairwise distinct keys have been set on an *)
(* empty cache, the first-inserted key is absent and all the others are    *)
(* present, however often the first key was read in between.               *)
(***************************************************************************)
C2_FifoNotLru ==
    Len(setLog) = MAX_CACHE_SIZE + 1 =>
        /\ setLog[1] \notin KeysOf(cache)
        /\ \A i \in 2..(MAX_CACHE_SIZE + 1) : setLog[i] \in KeysOf(cache)

C2_Witness ==
    /\ Len(setLog) = MAX_CACHE_SIZE + 1
    /\ readFirst
    /\ setLog[1] \notin KeysOf(cache)

(***************************************************************************)
(* C3: after every operation on the results cache (set, get, clear,        *)
(* cleanup) and after every memoized geometry call, neither cache holds    *)
(* more entries than its maximum size.                                     *)
(***************************************************************************)
C3_Capacity == Len(cache) <= MAX_CACHE_SIZE /\ Len(mathCache) <= MathCacheMaxSize

\* a set() of a new key on the full results cache has evicted an entry
C3_Witness ==
    /\ lastOp.op = "set"
    /\ lastOp.dropped = 1
    /\ Len(cache) = MAX_CACHE_SIZE

(***************************************************************************)
(* C4 as stated: whenever a set() pushes the cache over capacity, the      *)
(* entry it evicts has the smallest timestamp of all the entries held.     *)
(***************************************************************************)
Overflows == lastOp'.op = "set" /\ lastOp'.key \notin KeysOf(cache) /\ Len(cache) = MAX_CACHE_SIZE
EvictedKeys == (KeysOf(cache) \cup {lastOp'.key}) \ KeysOf(cache')

C4_EvictsSmallestTimestamp ==
    [][Overflows =>
        \A j \in EvictedKeys \cap KeysOf(cache) :
            \A i \in 1..Len(cache) : cache[IndexOf(cache, j)].timestamp <= cache[i].timestamp]_vars

(***************************************************************************)
(* C4 as amended: whenever a set() pushes the cache over capacity, it      *)
(* evicts exactly one entry, the one whose key entered the Map first.      *)
(***************************************************************************)
C4_EvictsFirstEntered ==
    [][Overflows => EvictedKeys = {Head(entryOrder)}]_vars

\* an overflowing set() has just evicted an entry
C4_Witness ==
    /\ lastOp.op = "set"
    /\ lastOp.dropped = 1
    /\ Len(cache) = MAX_CACHE_SIZE
    /\ lastOp.key = cache[Len(cache)].key

(***************************************************************************)
(* C5 as stated: a cleanup() removes exactly the entries that get() would  *)
(* treat as expired (age >= TTL) and keeps the ones get() would return.    *)
(***************************************************************************)
C5_CleanupRemovesExpired ==
    [][lastOp'.op = "cleanup" =>
        cache' = SelectSeq(cache, LAMBDA e : now - e.timestamp < CACHE_EXPIRY)]_vars

(***************************************************************************)
(* C6: directly after clear() the cache is empty, and a key that has not   *)
(* been set since is read as null.                                        *)
(***************************************************************************)
C6_ClearEmpties ==
    /\ lastOp.op = "clear" => Len(cache) = 0
    /\ (lastOp.op = "get" /\ lastSet[lastOp.key] = NoSet) => lastOp.ret = Null

\* clear() has just removed a full cache of entries
C6_Witness ==
    /\ lastOp.op = "clear"
    /\ lastOp.dropped = MAX_CACHE_SIZE
    /\ Len(cache) = 0

(***************************************************************************)
(* C7: after setEasyAxisDirection(x) the orientation flag equals x and the *)
(* results cache is empty; the handler that changes the orientation never  *)
(* shows a cached result, and what it computes is computed under x; and    *)
(* no later calculation returns a result obtained under another            *)
(* orientation than the current one, because the cache never holds one.    *)
(***************************************************************************)
C7_AxisChangeInvalidates ==
    /\ lastCall.op = "setEasyAxisDirection" =>
           easyAxisInPlane = lastCall.arg /\ cache = << >>
    /\ lastCall.op = "updateEasyAxisDirection" =>
           /\ easyAxisInPlane = lastCall.arg
           /\ shown.from # "cache"
           /\ shown.from = "computed" => shown.html.crystallineEasyAxis = lastCall.arg
    /\ (lastCall.op \in {"calculate", "changeGeometry"} /\ shown.from = "cache") =>
           shown.html.crystallineEasyAxis = easyAxisInPlane
    /\ \A i \in 1..Len(cache) : cache[i].result.crystallineEasyAxis = easyAxisInPlane

\* the orientation was changed while the input on display was cached, and it was recomputed
C7_Witness ==
    /\ lastCall.op = "updateEasyAxisDirection"
    /\ lastCall.held
    /\ lastCall.was # lastCall.arg
    /\ shown.from = "computed"
    /\ Len(cache) = 1

(***************************************************************************)
(* C8 as stated: whenever a geometry function returns a triple, each       *)
(* factor lies in [0, 1] and the three sum to 1 within 1e-6.               *)
(***************************************************************************)
InUnit(x) == 0 <= x /\ x <= One
SumsToOne(v) == v[1] + v[2] + v[3] - One \in (-(One \div 10^6))..(One \div 10^6)

C8_FactorsPhysical ==
    (geo.fn # "none" /\ geo.err = NoError) =>
        /\ InUnit(geo.val[1]) /\ InUnit(geo.val[2]) /\ InUnit(geo.val[3])
        /\ SumsToOne(geo.val)

(***************************************************************************)
(* C9: prism and cylinder validation is ordered: a dimension <= 0 gives    *)
(* the must-be-positive error whatever else is wrong; otherwise a          *)
(* dimension below 0.01 or above 1e6 gives an out-of-range error even when *)
(* the aspect ratio is above the limit too; otherwise max/min > 1e7 gives  *)
(* the aspect-ratio error; otherwise validation passes, so 0.01 and 1e6    *)
(* themselves are accepted.                                                *)
(***************************************************************************)
ArgSet == {geo.args[i] : i \in 1..Len(geo.args)}
AnyNonPositive == \E x \in ArgSet : x.m <= 0
AnyOutOfRange == \E x \in ArgSet : x.e < -2 \/ x.e > 6 \/ (x.e = 6 /\ x.m > 1)
\* max > 1e7 * min: more than seven decades apart, or seven with the larger digit on top
RatioAboveLimit ==
    \E x \in ArgSet, y \in ArgSet : x.e - y.e > 7 \/ (x.e - y.e = 7 /\ x.m > y.m)
ValidationErrors == {MustBePositive, MustBeAtLeast, MustBeLessThan, AspectTooExtreme}

C9_ValidationOrder ==
    geo.fn \in {"demag_factors", "N_cylinder"} =>
        IF AnyNonPositive THEN geo.err = MustBePositive
        ELSE IF AnyOutOfRange THEN geo.err \in {MustBeAtLeast, MustBeLessThan}
        ELSE IF RatioAboveLimit THEN geo.err = AspectTooExtreme
        ELSE geo.err \notin ValidationErrors

\* a prism with a dimension out of range and an aspect ratio above the limit
C9_Witness ==
    /\ geo.fn = "demag_factors"
    /\ ~AnyNonPositive /\ AnyOutOfRange /\ RatioAboveLimit
    /\ geo.err \in {MustBeAtLeast, MustBeLessThan}

(***************************************************************************)
(* C10 as stated: the prism (1e7, 1, 1) succeeds and the prism (2e7, 1, 1) *)
(* fails with the aspect-ratio error.                                      *)
(***************************************************************************)
C10_BoundaryAsStated ==
    geo.fn = "demag_factors" =>
        /\ geo.args = <<Dec(1, 7), Dec(1, 0), Dec(1, 0)>> => geo.err = NoError
        /\ geo.args = <<Dec(2, 7), Dec(1, 0), Dec(1, 0)>> => geo.err = AspectTooExtreme

(***************************************************************************)
(* C10 as amended: the prisms (1e7, 1, 1) and (2e7, 1, 1) both fail with   *)
(* the out-of-range error, a > 1e6; inside the dimension range the prism   *)
(* (1e5, 0.01, 0.01), of aspect ratio exactly 1e7, succeeds and returns a  *)
(* triple, and (2e5, 0.01, 0.01), of aspect ratio 2e7, fails with the      *)
(* aspect-ratio error.                                                     *)
(***************************************************************************)
C10_BoundaryInRange ==
    geo.fn = "demag_factors" =>
        /\ geo.args = <<Dec(1, 7), Dec(1, 0), Dec(1, 0)>> => geo.err = MustBeLessThan
        /\ geo.args = <<Dec(2, 7), Dec(1, 0), Dec(1, 0)>> => geo.err = MustBeLessThan
        /\ geo.args = <<Dec(1, 5), Dec(1, -2), Dec(1, -2)>> => (geo.err = NoError /\ Len(geo.val) = 3)
        /\ geo.args = <<Dec(2, 5), Dec(1, -2), Dec(1, -2)>> => geo.err = AspectTooExtreme

C10_Witness ==
    /\ geo.fn = "demag_factors"
    /\ geo.args = <<Dec(1, 5), Dec(1, -2), Dec(1, -2)>>
    /\ geo.err = NoError

(***************************************************************************)
(* C11 as stated: a validated prism with one dimension below 1e-6 times    *)
(* both others has factor 1 along that axis and 0 along the other two; one *)
(* with a dimension above 1e6 times both others has factor 0 along that    *)
(* axis and 0.5 along the other two; whichever axis (x along a, y along b, *)
(* z along c) is the distinguished one.                                    *)
(***************************************************************************)
Others(i) == {1, 2, 3} \ {i}
ThinAlong(d, i) == \A j \in Others(i) : Less(Times10(d[i], 6), d[j])
LongAlong(d, i) == \A j \in Others(i) : Less(Times10(d[j], 6), d[i])

C11_LimitTriples ==
    (geo.fn = "demag_factors" /\ geo.err = NoError) =>
        \A i \in {1, 2, 3} :
            /\ ThinAlong(geo.args, i) =>
                   geo.val = [j \in {1, 2, 3} |-> IF j = i THEN One ELSE 0]
            /\ LongAlong(geo.args, i) =>
                   geo.val = [j \in {1, 2, 3} |-> IF j = i THEN 0 ELSE Half]

(***************************************************************************)
(* C12: for a validated cylinder with p = thickness / diameter, p < 1e-6   *)
(* gives N_z = 1 - 2p/pi and p > 1e6 gives the infinite-rod triple         *)
(* (0.5, 0.5, 0); whenever the calculation succeeds N_x = N_y =            *)
(* (1 - N_z) / 2, the three sum to 1 and each lies in [0, 1].              *)
(***************************************************************************)
\* 2p/pi in units of 10^-9, for p = t / d below 1e-6
TwoPOverPi(t, d) == (TwoOverPi * t.m) \div (d.m * 10^(d.e - t.e))

C12_CylinderLimits ==
    (geo.fn = "N_cylinder" /\ geo.err = NoError) =>
        LET t == geo.args[1]
            d == geo.args[2]
            N == geo.val
        IN  /\ Less(Times10(t, 6), d) =>
                   /\ One - N[3] >= TwoPOverPi(t, d) - 1
                   /\ One - N[3] <= TwoPOverPi(t, d) + 1
            /\ Less(Times10(d, 6), t) => N = <<Half, Half, 0>>
            /\ N[1] = N[2]
            /\ One - N[3] - 2 * N[1] \in {0, 1}
            /\ \A i \in {1, 2, 3} : N[i] >= 0 /\ N[i] <= One

\* the thin disk 0.01 x 100000, p = 1e-7, with N_z just below 1
C12_Witness ==
    /\ geo.fn = "N_cylinder"
    /\ geo.err = NoError
    /\ Less(Times10(geo.args[1], 6), geo.args[2])
    /\ geo.val[3] < One
    /\ geo.val[3] > One - 100

(***************************************************************************)
(* C13: the sphere returns (1/3, 1/3, 1/3), the thin film (0, 0, 1) and    *)
(* the infinite rod (0.5, 0.5, 0) for every positive argument, whether or  *)
(* not it lies in the range of the prism dimensions; each fails with the   *)
(* must-be-positive error for an argument <= 0.                            *)
(***************************************************************************)
FixedTriple(fn) ==
    IF fn = "N_sphere" THEN <<One \div 3, One \div 3, One \div 3>>
    ELSE IF fn = "N_thin_film" THEN <<0, 0, One>>
    ELSE <<One \div 2, One \div 2, 0>>

C13_FixedTriples ==
    geo.fn \in {"N_sphere", "N_thin_film", "N_infinite_rod"} =>
        IF geo.args[1].m <= 0
        THEN geo.err = MustBePositive
        ELSE geo.err = NoError /\ geo.val = FixedTriple(geo.fn)

\* a sphere of diameter 2e7 nm, above the largest prism dimension
C13_Witness ==
    /\ geo.fn = "N_sphere"
    /\ geo.args = <<Dec(2, 7)>>
    /\ geo.val = <<333333333, 333333333, 333333333>>

(***************************************************************************)
(* C14: analyzeAnisotropy computes K_eff = Ku + K_shape when the           *)
(* crystalline easy axis is out-of-plane and the easy shape axis is 'z',   *)
(* or when it is in-plane and the easy shape axis is not 'z', and          *)
(* K_eff = Ku - K_shape in the two other cases; with Ku = 0, N_easy = 0 on *)
(* 'x', N_hard = 1, a positive Ms and the crystalline axis out-of-plane,   *)
(* K_eff = -K_shape and the class is shape-dominated.                      *)
(***************************************************************************)
SignIsPlus(inPlane, easyName) ==
    \/ ~inPlane /\ easyName = "z"
    \/ inPlane /\ easyName # "z"

C14_Example ==
    /\ analysis.called
    /\ analysis.Ku = 0 /\ analysis.Ms > 0 /\ ~analysis.inPlane
    /\ analysis.ret.easy_axis = "x"
    /\ analysis.ret.N_easy = 0 /\ analysis.ret.N_hard = One

C14_SignTable ==
    analysis.called =>
        LET r == analysis.ret
        IN  /\ r.K_eff = IF SignIsPlus(analysis.inPlane, r.easy_axis)
                         THEN analysis.Ku + r.K_shape
                         ELSE analysis.Ku - r.K_shape
            /\ C14_Example => /\ r.K_eff = -r.K_shape
                              /\ r.anisotropy_type = ShapeDominated

C14_Witness ==
    /\ C14_Example
    /\ analysis.ret.K_shape > 0
    /\ analysis.ret.K_eff = -analysis.ret.K_shape
    /\ analysis.ret.anisotropy_type = ShapeDominated

(***************************************************************************)
(* C15: for every list of two or three factors with values in [0, 1], in   *)
(* any order, analyzeAnisotropy takes N_easy = the smallest value and      *)
(* N_hard = the largest, so K_shape >= 0, and for a positive Ms            *)
(* K_shape = 0 exactly when all the factors are equal; H_c is never        *)
(* negative.                                                               *)
(***************************************************************************)
ValuesOf(factors) == {factors[i].value : i \in DOMAIN factors}

C15_ShapeNeverNegative ==
    analysis.called =>
        LET r == analysis.ret
            vs == ValuesOf(analysis.factors)
        IN  /\ r.N_easy \in vs /\ \A v \in vs : r.N_easy <= v
            /\ r.N_hard \in vs /\ \A v \in vs : v <= r.N_hard
            /\ r.K_shape >= 0
            /\ analysis.Ms > 0 => (r.K_shape = 0 <=> Cardinality(vs) = 1)
            /\ r.H_c.kind = "finite" => r.H_c.v >= 0

C15_Witness ==
    /\ analysis.called
    /\ Len(analysis.factors) = 3
    /\ analysis.factors[1].value = One
    /\ analysis.factors[2].value = 0
    /\ analysis.factors[3].value = Half
    /\ analysis.ret.N_easy = 0 /\ analysis.ret.N_hard = One
    /\ analysis.ret.K_shape > 0
    /\ analysis.ret.H_c.kind = "finite" /\ analysis.ret.H_c.v > 0

(***************************************************************************)
(* C16: the classification is total and exclusive over K_eff:              *)
(* |K_eff| < 0.01e6 gives Isotropic with preferred direction "None";       *)
(* otherwise K_eff > 0 gives the crystalline-dominated class with the      *)
(* orientation of the crystalline easy axis as preferred direction;        *)
(* otherwise (K_eff <= -0.01e6) the class is shape-dominated.  The value   *)
(* |K_eff| = 0.01e6 itself is not Isotropic.                               *)
(***************************************************************************)
C16_ClassificationTotal ==
    analysis.called =>
        LET r == analysis.ret
            K == r.K_eff
        IN  /\ r.anisotropy_type \in {Isotropic, CrystallineDominated, ShapeDominated}
            /\ r.anisotropy_type = Isotropic <=> (-IsotropicBand < K /\ K < IsotropicBand)
            /\ r.anisotropy_type = Isotropic => r.preferred_direction = "None"
            /\ r.anisotropy_type = CrystallineDominated <=> K >= IsotropicBand
            /\ r.anisotropy_type = CrystallineDominated =>
                   r.preferred_direction = (IF analysis.inPlane THEN InPlane ELSE OutOfPlane)
            /\ r.anisotropy_type = ShapeDominated <=> K <= -IsotropicBand

C16_Witness ==
    /\ analysis.called
    /\ analysis.ret.K_eff = IsotropicBand
    /\ analysis.inPlane
    /\ analysis.ret.anisotropy_type = CrystallineDominated
    /\ analysis.ret.preferred_direction = InPlane

(***************************************************************************)
(* C17: in the shape-dominated class the preferred direction is that of    *)
(* the easy shape axis: Out-of-plane when the easy axis is 'z', In-plane   *)
(* otherwise, on both orientations of the crystalline easy axis and for    *)
(* every Ku that leads there.  It is the opposite of the crystalline       *)
(* orientation for 'z' and the same otherwise (C17_OppositeOfCrystal) only *)
(* when the crystalline easy axis is in-plane.                             *)
(***************************************************************************)
C17_OppositeOfCrystal ==
    (analysis.called /\ analysis.ret.anisotropy_type = ShapeDominated) =>
        analysis.ret.preferred_direction =
            IF analysis.ret.easy_axis = "z"
            THEN (IF analysis.inPlane THEN OutOfPlane ELSE InPlane)
            ELSE (IF analysis.inPlane THEN InPlane ELSE OutOfPlane)

C17_FollowsShapeAxis ==
    (analysis.called /\ analysis.ret.anisotropy_type = ShapeDominated) =>
        /\ analysis.ret.preferred_direction =
               IF analysis.ret.easy_axis = "z" THEN OutOfPlane ELSE InPlane
        /\ analysis.inPlane =>
               analysis.ret.preferred_direction =
                   IF analysis.ret.easy_axis = "z" THEN Orientation(~analysis.inPlane)
                   ELSE Orientation(analysis.inPlane)

C17_Witness ==
    /\ analysis.called
    /\ analysis.ret.anisotropy_type = ShapeDominated
    /\ ~analysis.inPlane
    /\ analysis.Ku = 0 /\ analysis.T > 0
    /\ analysis.ret.easy_axis = "x"
    /\ analysis.ret.preferred_direction = InPlane

(***************************************************************************)
(* C18: the analysis rendered, and stored in the results cache, has        *)
(* delta = 'N/A' for the thin film and the infinite rod, and for prism,    *)
(* cylinder and sphere the number |K_eff| * V / (k_B * T) of the real      *)
(* volume; the placeholder volume 1e-24 gives no numeric delta.            *)
(***************************************************************************)
RealVolume(h) ==
    IF h.type = "prism" THEN PrismVolume(h.dims[1], h.dims[2], h.dims[3])
    ELSE IF h.type = "cylinder" THEN CylinderVolume(h.dims[1], h.dims[2])
    ELSE SphereVolume(h.dims[1])

DeltaAsStated(h) ==
    IF h.type \in {"thin-film", "infinite-rod"}
    THEN h.analysis.delta = NotApplicable
    ELSE /\ h.analysis.delta.kind = "finite"
         /\ RealVolume(h) # V_dummy
         /\ h.analysis.delta = ThermalStability(h.analysis.K_eff, RealVolume(h), h.mat.T)

C18_DeltaOnlyWithVolume ==
    /\ shown.from \in {"computed", "cache"} => DeltaAsStated(shown.html)
    /\ \A i \in 1..Len(cache) : DeltaAsStated(cache[i].result)

C18_Witness ==
    /\ shown.from = "cache"
    /\ shown.html.type = "thin-film"
    /\ shown.html.analysis.delta = NotApplicable
    /\ \E i \in 1..Len(cache) :
           /\ cache[i].result.type = "cylinder"
           /\ cache[i].result.analysis.delta.kind = "finite"
           /\ cache[i].result.analysis.delta.v > 0

(***************************************************************************)
(* C19: a calculation that fails renders only the error and leaves both    *)
(* caches as they were: no entry is added to the results cache and none    *)
(* to the cache of the geometry factors.                                   *)
(***************************************************************************)
C19_NoCachedFailures ==
    [][(lastCall'.op \in {"calculate", "changeGeometry"} /\ shown'.from = "error") =>
           (cache' = cache /\ mathCache' = mathCache)]_vars

\* the part about the results cache alone
C19_ResultsCacheKept ==
    [][(lastCall'.op \in {"calculate", "changeGeometry"} /\ shown'.from = "error") =>
           cache' = cache]_vars

(***************************************************************************)
(* C20: analyzeAnisotropy never returns a record with a non-finite field:  *)
(* with Ms = 0 or T = 0 (a division by zero) it produces no analysis       *)
(* record.                                                                 *)
(***************************************************************************)
C20_NoNonFiniteField ==
    analysis.called =>
        /\ analysis.ret.H_c.kind = "finite"
        /\ analysis.ret.delta.kind = "finite"

(***************************************************************************)
(* C21: the math cache has no expiry: a memoized call whose key is stored  *)
(* returns the stored value and leaves the cache as it is, however long    *)
(* ago the entry was stored; an entry leaves the cache only as the first   *)
(* in insertion order, when the insertion of a new key has brought the     *)
(* size above the limit.                                                   *)
(***************************************************************************)
MemoizedFunctions ==
    {"memoizedDemagFactors", "memoizedNCylinder", "memoizedNSphere",
     "memoizedNThinFilm", "memoizedNInfiniteRod"}

CallKey(g) ==
    IF g.fn = "memoizedDemagFactors" THEN PrismKey(g.args[1], g.args[2], g.args[3])
    ELSE IF g.fn = "memoizedNCylinder" THEN CylinderKey(g.args[1], g.args[2])
    ELSE IF g.fn = "memoizedNSphere" THEN SphereKey(g.args[1])
    ELSE IF g.fn = "memoizedNThinFilm" THEN ThinFilmKey(g.args[1])
    ELSE InfiniteRodKey(g.args[1])

\* the same keys in the same order, each with the same value
SameEntries(mc, mc1) ==
    /\ Len(mc1) = Len(mc)
    /\ \A i \in 1..Len(mc) : mc1[i].key = mc[i].key /\ mc1[i].value = mc[i].value

\* what a step of the math cache changes: the clock, the call made, the keys held
MemoStep ==
    <<now, geo.fn, geo.args, IF geo.fn \in MemoizedFunctions THEN geo.at ELSE -1,
      [i \in 1..Len(mathCache) |-> mathCache[i].key]>>

C21_NoExpiryOnlyFifo ==
    [][/\ (now' = now /\ geo'.fn \in MemoizedFunctions /\ CallKey(geo') \in KeysOf(mathCache)) =>
              /\ SameEntries(mathCache, mathCache')
              /\ geo'.err = NoError
              /\ geo'.val = mathCache[IndexOf(mathCache, CallKey(geo'))].value
       /\ \A k \in KeysOf(mathCache) \ KeysOf(mathCache') :
              /\ k = mathCache[1].key
              /\ Len(mathCache) = MathCacheMaxSize
              /\ KeysOf(mathCache') \ KeysOf(mathCache) # {}
       /\ now' # now => SameEntries(mathCache, mathCache')]_MemoStep

C21_Witness ==
    /\ geo.fn \in MemoizedFunctions
    /\ CallKey(geo) \in KeysOf(mathCache)
    /\ Len(mathCache) = MathCacheMaxSize
    /\ geo.at - storedAt[IndexOf(mathCache, CallKey(geo))] > CACHE_EXPIRY
    /\ geo.val = mathCache[IndexOf(mathCache, CallKey(geo))].value

(***************************************************************************)
(* C22: ellipticFInc(k, theta) and ellipticEInc(k, theta) fall into the    *)
(* same cases: k outside [0, 1) fails, before anything else; otherwise     *)
(* theta = 0 returns 0; otherwise |theta| >= pi/2 returns the complete     *)
(* integral of k^2 times sign(theta); otherwise the truncated series when  *)
(* k^2 sin^2(theta) < 0.9 and the 20-panel midpoint quadrature when        *)
(* k^2 sin^2(theta) >= 0.9.                                                *)
(***************************************************************************)
DispatchAsStated(fn, k, theta, r) ==
    IF k < 0 \/ k >= 1000 THEN r.err = InvalidParameter
    ELSE /\ r.err = NoError
         /\ IF theta = 0 THEN r.val.form = "0"
            ELSE IF theta > HalfPi \/ -theta > HalfPi
                 THEN /\ r.val.form = "complete"
                      /\ r.val.fn = (IF fn = "ellipticFInc" THEN "ellipticK" ELSE "ellipticE")
                      /\ r.val.m = k * k
                      /\ r.val.sign = (IF theta > 0 THEN 1 ELSE -1)
            ELSE IF K2Sin2(k, theta) < 9 * 10^8 THEN r.val.form = "series"
            ELSE r.val.form = "midpoint quadrature" /\ r.val.panels = 20

C22_DispatchAlike ==
    geo.fn \in {"ellipticFInc", "ellipticEInc"} =>
        DispatchAsStated(geo.fn, geo.args[1], geo.args[2], geo)

\* the cases of ellipticFInc alone
C22_DispatchOfFInc ==
    geo.fn = "ellipticFInc" => DispatchAsStated(geo.fn, geo.args[1], geo.args[2], geo)

(***************************************************************************)
(* C23: expiry is lazy.  A get(k) on an entry whose age has reached the    *)
(* TTL deletes that entry alone and returns null; a get(k) on a live entry *)
(* or on a key not held leaves the entries, their timestamps and their     *)
(* order as they are; the passing of time removes nothing, so an expired   *)
(* entry that is not read stays, and counts toward the capacity, until     *)
(* cleanup(), clear() or the eviction of a set() removes it.               *)
(***************************************************************************)
HasExpired(c, k, t) == k \in KeysOf(c) /\ t - c[IndexOf(c, k)].timestamp >= CACHE_EXPIRY

C23_LazyExpiry ==
    [][/\ lastOp'.op = "get" =>
              IF HasExpired(cache, lastOp'.key, now)
              THEN /\ cache' = MapDelete(cache, lastOp'.key)
                   /\ lastOp'.ret = Null
              ELSE /\ cache' = cache
                   /\ lastOp'.key \notin KeysOf(cache) => lastOp'.ret = Null
                   /\ lastOp'.key \in KeysOf(cache) =>
                          lastOp'.ret = cache[IndexOf(cache, lastOp'.key)].result
       /\ lastOp'.op = "tick" => cache' = cache
       /\ lastOp'.op = "set" =>
              \A k \in KeysOf(cache) \ KeysOf(cache') :
                  k = cache[1].key /\ Len(cache) = MAX_CACHE_SIZE]_vars

C23_Witness ==
    /\ lastOp.op = "get"
    /\ lastOp.ret = Null
    /\ lastOp.dropped = 1
    /\ Len(cache) = MAX_CACHE_SIZE - 1
    /\ HasExpired(cache, cache[1].key, now)

(***************************************************************************)
(* C24: when several factors share the smallest value, the easy axis is    *)
(* the first of them in the order of the list passed; when several share   *)
(* the largest value, the hard axis is the last of them in that order.     *)
(* For the thin film (x = 0, y = 0, z = 1) the easy axis is 'x'; for the   *)
(* infinite rod (x = 0.5, y = 0.5, z = 0) the hard axis is 'y'.            *)
(* C24_FirstWinsForBoth is the statement with the first occurrence winning *)
(* for the hard axis as well.                                              *)
(***************************************************************************)
Smallest(factors) == {i \in DOMAIN factors : \A j \in DOMAIN factors : factors[i].value <= factors[j].value}
Largest(factors) == {i \in DOMAIN factors : \A j \in DOMAIN factors : factors[j].value <= factors[i].value}
FirstOf(S) == CHOOSE i \in S : \A j \in S : i <= j
LastOf(S) == CHOOSE i \in S : \A j \in S : j <= i
ThinFilmFactors == <<Factor("x", 0), Factor("y", 0), Factor("z", One)>>
InfiniteRodFactors == <<Factor("x", Half), Factor("y", Half), Factor("z", 0)>>

C24_FirstWinsForBoth ==
    analysis.called =>
        /\ analysis.ret.easy_axis = analysis.factors[FirstOf(Smallest(analysis.factors))].name
        /\ analysis.ret.hard_axis = analysis.factors[FirstOf(Largest(analysis.factors))].name
        /\ analysis.factors = ThinFilmFactors => analysis.ret.easy_axis = "x"
        /\ analysis.factors = InfiniteRodFactors => analysis.ret.hard_axis = "x"

C24_FirstEasyLastHard ==
    analysis.called =>
        /\ analysis.ret.easy_axis = analysis.factors[FirstOf(Smallest(analysis.factors))].name
        /\ analysis.ret.hard_axis = analysis.factors[LastOf(Largest(analysis.factors))].name
        /\ analysis.factors = ThinFilmFactors => analysis.ret.easy_axis = "x"
        /\ analysis.factors = InfiniteRodFactors => analysis.ret.hard_axis = "y"

C24_Witness ==
    /\ analysis.called
    /\ analysis.factors = InfiniteRodFactors
    /\ analysis.ret.hard_axis = "y"
    /\ analysis.ret.easy_axis = "z"

(***************************************************************************)
(* C25 as stated: for every validated prism, swapping two dimensions swaps *)
(* the corresponding two factors and leaves the third unchanged (to within *)
(* 1e-6), on the shortcut branches as on the closed form; so two equal     *)
(* dimensions give equal factors along their axes.                         *)
(***************************************************************************)
Swap(t, i, j) == [k \in DOMAIN t |-> IF k = i THEN t[j] ELSE IF k = j THEN t[i] ELSE t[k]]
Near(x, y) == x - y \in (-(One \div 10^6))..(One \div 10^6)
AxisPairs == {<<1, 2>>, <<1, 3>>, <<2, 3>>}
SwappedCall(args, p) == demag_factors(Swap(args, p[1], p[2])[1], Swap(args, p[1], p[2])[2], Swap(args, p[1], p[2])[3])

C25_PrismSymmetry ==
    (geo.fn = "demag_factors" /\ geo.err = NoError) =>
        \A p \in AxisPairs :
            /\ SwappedCall(geo.args, p).err = NoError
            /\ \A k \in 1..3 : Near(SwappedCall(geo.args, p).val[k], Swap(geo.val, p[1], p[2])[k])

(***************************************************************************)
(* C26: calculatePrism and calculateCylinder never render and never store  *)
(* in the results cache a result built from a factor triple with a         *)
(* component outside [0, 1]: every prism or cylinder result shown or       *)
(* cached carries factors in [0, 1] and belongs to dimensions for which    *)
(* the geometry layer yields such factors; when the geometry layer hands   *)
(* back another triple, also out of its cache, the error is shown instead. *)
(***************************************************************************)
GuardedTypes == {"prism", "cylinder"}
FactorsInUnit(r) == \A i \in 1..3 : InUnit(r.factors[i])
GeometryInUnit(r) ==
    IF r.type = "prism"
    THEN LET g == demag_factors(r.dims[1], r.dims[2], r.dims[3])
         IN  g.err = NoError /\ \A i \in 1..3 : InUnit(g.val[i])
    ELSE LET g == N_cylinder(r.dims[1], r.dims[2])
         IN  g.err = NoError /\ InUnit(g.val) /\ InUnit((One - g.val) \div 2)
HoldsBadTriple(mc) ==
    \E i \in 1..Len(mc) :
        /\ mc[i].key[1] \notin {"cylinder", "sphere", "thin", "infinite"}
        /\ \E j \in 1..3 : ~InUnit(mc[i].value[j])

C26_FactorsGuarded ==
    /\ \A i \in 1..Len(cache) :
           cache[i].result.type \in GuardedTypes =>
               FactorsInUnit(cache[i].result) /\ GeometryInUnit(cache[i].result)
    /\ (shown.from \in {"cache", "computed"} /\ shown.html.type \in GuardedTypes) =>
           FactorsInUnit(shown.html) /\ GeometryInUnit(shown.html)

\* The prism whose stored triple has N_y = -1 was calculated, another calculation
\* stored its factors after it, and the prism calculated again, its triple
\* coming out of the math cache, ended in the error.
C26_Witness ==
    /\ Len(mathCache) = 2
    /\ HoldsBadTriple(SubSeq(mathCache, 1, 1))
    /\ shown.from = "error"
    /\ shown.html = InvalidFactors

(***************************************************************************)
(* C27: in every state reached through calculations, changes of geometry,  *)
(* of the easy-axis direction and of the advanced view, cleanup runs and   *)
(* the passing of time, each live entry of the results cache is what a     *)
(* fresh calculation for its key renders under the current easyAxisInPlane *)
(* and showAdvanced; and a result a calculation has just shown from the    *)
(* cache was rendered under the current values of both.                    *)
(***************************************************************************)
FreshResult(k) ==
    calculate(k.type, << >>, << >>, easyAxisInPlane, showAdvanced, [dims |-> k.dims, mat |-> k.mat]).shown
Calculations == {"calculate", "changeGeometry", "updateEasyAxisDirection", "toggleAdvancedOptions"}

C27_CacheCoherent ==
    /\ \A i \in 1..Len(cache) :
           IsLive(cache, cache[i].key, now) =>
               /\ FreshResult(cache[i].key).from = "computed"
               /\ cache[i].result = FreshResult(cache[i].key).html
    /\ (shown.from = "cache" /\ lastCall.op \in Calculations) =>
           /\ shown.html.crystallineEasyAxis = easyAxisInPlane
           /\ shown.html.showAdvanced = showAdvanced

\* a hit with both flags away from their initial values, on a cache holding
\* two live entries, after time has passed
C27_Witness ==
    /\ shown.from = "cache"
    /\ lastCall.op \in Calculations
    /\ easyAxisInPlane /\ showAdvanced
    /\ now > 0
    /\ Len(cache) = MAX_CACHE_SIZE
    /\ \A i \in 1..Len(cache) : IsLive(cache, cache[i].key, now)

(***************************************************************************)
(* C28: memoization is transparent: in every sequence of calls of the five *)
(* memoized functions on the one math cache, each call returns the value,  *)
(* or raises the error, of the unmemoized function on its arguments; and   *)
(* no call of another function or with another dimension has the key of    *)
(* the call made.                                                          *)
(***************************************************************************)
Unmemoized(g) ==
    IF g.fn = "memoizedDemagFactors" THEN demag_factors(g.args[1], g.args[2], g.args[3])
    ELSE IF g.fn = "memoizedNCylinder" THEN N_cylinder(g.args[1], g.args[2])
    ELSE IF g.fn = "memoizedNSphere" THEN N_sphere(g.args[1])
    ELSE IF g.fn = "memoizedNThinFilm" THEN N_thin_film(g.args[1])
    ELSE N_infinite_rod(g.args[1])

MemoCalls ==
    {[fn |-> "memoizedDemagFactors", args |-> <<a, b, c>>] : a \in MemoDims, b \in MemoDims, c \in MemoDims}
    \cup {[fn |-> "memoizedNCylinder", args |-> <<t, d>>] : t \in MemoDims, d \in MemoDims}
    \cup {[fn |-> f, args |-> <<d>>] :
              f \in {"memoizedNSphere", "memoizedNThinFilm", "memoizedNInfiniteRod"}, d \in MemoDims}

C28_MemoizationTransparent ==
    geo.fn \in MemoizedFunctions =>
        /\ geo.err = Unmemoized(geo).err
        /\ geo.err = NoError => geo.val = Unmemoized(geo).val
        /\ \A g \in MemoCalls :
               CallKey(g) = CallKey(geo) => (g.fn = geo.fn /\ g.args = geo.args)

\* a call answered from the cache: its key is stored first, with the entry of
\* another call stored after it
C28_Witness ==
    /\ geo.fn \in MemoizedFunctions
    /\ geo.err = NoError
    /\ Len(mathCache) = 2
    /\ mathCache[1].key = CallKey(geo)
    /\ geo.val = mathCache[1].value

----------------------------------------------------------------------------
(***************************************************************************)
(* debounce(func, wait) (utils.js:103-113).  The function returned holds   *)
(* one timer: a call clears it and sets a new one, due wait ticks later,   *)
(* whose callback invokes func with the arguments of that call.  A timer   *)
(* runs its callback at the tick it is due; a call made at that very tick  *)
(* may run before the callback or after it.  Calls and invocations are     *)
(* numbered in the histories: invoked[j].call is the call whose timer      *)
(* made the invocation.                                                    *)
(***************************************************************************)
DEBOUNCE_DELAY == 2
MaxCalls == 3
DebounceMaxTime == MaxCalls * DEBOUNCE_DELAY + 1
DebounceArgs == {1, 2}

\* (variant: a timer that is pending is left to run, the call dropped)
executedFunctionKeepTimer(tm, args, n, t) ==
    IF tm.due >= 0 THEN tm ELSE [due |-> t + DEBOUNCE_DELAY, args |-> args, call |-> n]

\* executedFunction(...args): clearTimeout(timeout); timeout = setTimeout(later, wait)
executedFunction(tm, args, n, t) == [due |-> t + DEBOUNCE_DELAY, args |-> args, call |-> n]

\* later(): clearTimeout(timeout); func(...args)
later(tm, log, t) ==
    [timeout |-> NoTimeout, invoked |-> Append(log, [at |-> t, args |-> tm.args, call |-> tm.call])]

DebouncedCall ==
    \E args \in DebounceArgs :
        /\ Len(calls) < MaxCalls
        /\ timeout' = executedFunction(timeout, args, Len(calls) + 1, now)
        /\ calls' = Append(calls, [at |-> now, args |-> args])
        /\ UNCHANGED <<cacheVars, fifoVars, geomVars, analysis, engineVars, invoked, swept>>

TimerFires ==
    /\ timeout.due >= 0
    /\ timeout.due <= now
    /\ timeout' = later(timeout, invoked, now).timeout
    /\ invoked' = later(timeout, invoked, now).invoked
    /\ UNCHANGED <<cacheVars, fifoVars, geomVars, analysis, engineVars, calls, swept>>

DebounceTick ==
    /\ now < DebounceMaxTime
    /\ timeout.due < 0 \/ timeout.due > now
    /\ now' = now + 1
    /\ UNCHANGED <<cache, lastOp, lastSet, entryOrder, fifoVars, geomVars, analysis, engineVars,
                   timerVars>>

DebounceNext == DebouncedCall \/ TimerFires \/ DebounceTick

SpecDebounce == Init /\ [][DebounceNext]_vars

(***************************************************************************)
(* C29: a call followed by another less than wait later makes no           *)
(* invocation; a call followed by none, or by the next more than wait      *)
(* later, makes exactly one, wait after it and with its arguments; no      *)
(* invocation falls between two calls of a burst.  C29_AtLeastWaitApart is *)
(* the statement with "at least wait later" in the place of "more than     *)
(* wait later": a call exactly wait after the previous one may run before  *)
(* the timer's callback and clear the timer.                               *)
(***************************************************************************)
InvocationsOf(i) == {j \in 1..Len(invoked) : invoked[j].call = i}
Gap(i) == calls[i + 1].at - calls[i].at
Superseded(i) == i < Len(calls) /\ Gap(i) < DEBOUNCE_DELAY
TimerRan(i) == now > calls[i].at + DEBOUNCE_DELAY

Trailing ==
    /\ \A j \in 1..Len(invoked) :
           /\ invoked[j].call \in 1..Len(calls)
           /\ invoked[j].at = calls[invoked[j].call].at + DEBOUNCE_DELAY
           /\ invoked[j].args = calls[invoked[j].call].args
    /\ \A i \in 1..Len(calls) :
           /\ Cardinality(InvocationsOf(i)) <= 1
           /\ Superseded(i) =>
                  /\ InvocationsOf(i) = {}
                  /\ \A j \in 1..Len(invoked) :
                         ~(calls[i].at < invoked[j].at /\ invoked[j].at < calls[i + 1].at)

C29_AtLeastWaitApart ==
    /\ Trailing
    /\ \A i \in 1..Len(calls) :
           ((i = Len(calls) \/ Gap(i) >= DEBOUNCE_DELAY) /\ TimerRan(i)) =>
               Cardinality(InvocationsOf(i)) = 1

C29_MoreThanWaitApart ==
    /\ Trailing
    /\ \A i \in 1..Len(calls) :
           ((i = Len(calls) \/ Gap(i) > DEBOUNCE_DELAY) /\ TimerRan(i)) =>
               Cardinality(InvocationsOf(i)) = 1

\* a burst of two calls with different arguments, then a call on its own:
\* one invocation for the burst, with the arguments of its last call, and one
\* for the call on its own
C29_Witness ==
    /\ Len(calls) = 3
    /\ Gap(1) < DEBOUNCE_DELAY /\ calls[1].args # calls[2].args
    /\ Gap(2) > DEBOUNCE_DELAY
    /\ Len(invoked) = 2
    /\ invoked[1].call = 2 /\ invoked[1].args = calls[2].args
    /\ invoked[2].call = 3

----------------------------------------------------------------------------
(***************************************************************************)
(* The results cache under setInterval(cleanupCaches, CACHE_EXPIRY)        *)
(* (utils.js:517-519, 555): the interval timer runs cleanup() at every     *)
(* multiple of CACHE_EXPIRY, at the tick it is due; set, get and clear are *)
(* called at any time, also at that tick, before the sweep or after it.    *)
(***************************************************************************)
PeriodicMaxTime == 3 * CACHE_EXPIRY
SweepDue == now > 0 /\ now % CACHE_EXPIRY = 0 /\ swept < now

PeriodicTick ==
    /\ now < PeriodicMaxTime
    /\ ~SweepDue
    /\ now' = now + 1
    /\ lastOp' = Op("tick", NoKey, Null, cache, cache)
    /\ lastSet' = [k \in CacheKeys |-> Aged(lastSet[k], now + 1)]
    /\ UNCHANGED <<cache, entryOrder, fifoVars, timerVars, analysis, geomVars, engineVars>>

PeriodicCleanup ==
    /\ SweepDue
    /\ Cleanup
    /\ swept' = now
    /\ UNCHANGED <<fifoVars, timeout, calls, invoked, analysis, geomVars, engineVars>>

PeriodicNext ==
    \/ PeriodicTick
    \/ PeriodicCleanup
    \/ CacheSetCall
    \/ CacheGetCall
    \/ CacheClearCall

SpecPeriodic == Init /\ [][PeriodicNext]_vars

(***************************************************************************)
(* C30: with cleanup() run every CACHE_EXPIRY, no entry stays in storage   *)
(* longer than 2 * CACHE_EXPIRY after the set() that stored it, read or    *)
(* not: an entry is never older than that, and one of exactly that age     *)
(* has the sweep that removes it due at this tick.                         *)
(***************************************************************************)
Age(i) == now - cache[i].timestamp

C30_BoundedRetention ==
    \A i \in 1..Len(cache) :
        /\ Age(i) <= 2 * CACHE_EXPIRY
        /\ Age(i) = 2 * CACHE_EXPIRY => SweepDue

\* the longest stay: an entry stored at the tick of a sweep, left by the next
\* sweep at age CACHE_EXPIRY, and now of age 2 * CACHE_EXPIRY
C30_Witness ==
    /\ SweepDue
    /\ \E i \in 1..Len(cache) : Age(i) = 2 * CACHE_EXPIRY /\ cache[i].timestamp > 0

====
